---- MODULE Spec2Model ----
(***************************************************************************)
(* Multi-tenant mirror of a remote shop's customers, products and orders:  *)
(* the full pull (fullSync), the sync-customers endpoint, the webhook      *)
(* dispatcher (processWebhookPayload) and the paginated collection pull    *)
(* (paginateAll).                                                          *)
(***************************************************************************)
EXTENDS Integers, Sequences, FiniteSets, TLC

VARIABLES tenants, remote, customers, products, orders, proc, pull, auth, cron

vars == <<tenants, remote, customers, products, orders, proc, pull, auth, cron>>

----------------------------------------------------------------------------
(* Values *)

\* A JSON field that is missing or null (what ?? treats as nullish).
ABSENT == "absent"
\* SQL NULL in a nullable column.
NULL == "null"
\* No row / no result (JS null or undefined held in a local).
NONE == "none"
\* new Date() of text that is no date; Decimal of text that is no number.
INVALID == "invalid"

\* Requests in flight: passes and sync requests run in SyncProcs, webhook
\* deliveries in HookProcs.
SyncProcs == {"p1"}
HookProcs == {"p2"}
Procs == SyncProcs \cup HookProcs

\* Largest number of records one collection pull hands to fullSync.
MaxItems == 2

----------------------------------------------------------------------------
(* Javascript conversions used by the mappings *)

\* String(x) of a number: its decimal digits.
String(n) == ToString(n)

\* new Date(text): the instant, written in its canonical form.
NewDate(s) ==
  CASE s = "2025-01-01T00:00:00Z" -> "2025-01-01T00:00:00.000Z"
    [] s = "2025-02-01T00:00:00Z" -> "2025-02-01T00:00:00.000Z"
    [] OTHER -> INVALID

\* x ? ... : ... on a text field: missing, null and "" are falsy.
Truthy(s) == s \notin {ABSENT, ""}

\* a ?? b
Coalesce(a, b) == IF a = ABSENT THEN b ELSE a

\* The value the store keeps for a DECIMAL(12,2) column.
ToDecimal(s) ==
  CASE s = "0.00" -> "0.00"
    [] s = "9.99" -> "9.99"
    [] s = "19.9" -> "19.90"
    [] s = "5.00" -> "5.00"
    [] OTHER -> INVALID

\* A data object: the fields that are not undefined. Opt(f, c, v) is the
\* field f when c holds and no field (undefined) otherwise.
NoFields == [f \in {} |-> NULL]
Opt(f, c, v) == IF c THEN (f :> v) ELSE NoFields

\* x ? new Date(x) : null
OptDate_NullWhenAbsent(f, s) == f :> (IF Truthy(s) THEN NewDate(s) ELSE NULL)

\* x ? new Date(x) : undefined
OptDate(f, s) == Opt(f, Truthy(s), NewDate(s))

----------------------------------------------------------------------------
(* Remote records (the inputs) *)

Iso1 == "2025-01-01T00:00:00Z"
Iso2 == "2025-02-01T00:00:00Z"

NoAddress == <<>>

cFull == [id |-> 100, email |-> "a@x.io", first_name |-> "Ann", last_name |-> "Lee",
          created_at |-> Iso1, updated_at |-> Iso2, default_address |-> NoAddress]
cBare == [id |-> 100, email |-> ABSENT, first_name |-> ABSENT, last_name |-> ABSENT,
          created_at |-> ABSENT, updated_at |-> ABSENT,
          default_address |-> <<[first_name |-> "Ann", last_name |-> "Lee"]>>]
cBad  == [id |-> 100, email |-> "a@x.io", first_name |-> "Ann", last_name |-> "Lee",
          created_at |-> "yesterday", updated_at |-> ABSENT, default_address |-> NoAddress]

pFull == [id |-> 500, title |-> "Shirt", created_at |-> Iso1,
          variants |-> <<[sku |-> "SKU1", price |-> "9.99"]>>]
pBare == [id |-> 500, title |-> ABSENT, created_at |-> ABSENT, variants |-> <<>>]
pBad  == [id |-> 500, title |-> "Shirt", created_at |-> ABSENT,
          variants |-> <<[sku |-> "SKU1", price |-> "free"]>>]

oFull == [id |-> 900, order_number |-> 1001, total_price |-> "9.99", currency |-> "USD",
          created_at |-> Iso1, customer |-> <<cFull>>]
oBare == [id |-> 900, order_number |-> 0, total_price |-> ABSENT, currency |-> ABSENT,
          created_at |-> ABSENT, customer |-> <<>>]
oBad  == [id |-> 900, order_number |-> 1001, total_price |-> "free", currency |-> "USD",
          created_at |-> Iso1, customer |-> <<>>]

\* A customer registered without a first name, and the order that embeds it.
cNoName == [cFull EXCEPT !.first_name = ABSENT]
oNoName == [oFull EXCEPT !.customer = <<cNoName>>]

\* A customer the customers collection does not list, and the order once its
\* customer was changed to that one and its total repriced.
cOther == [id |-> 101, email |-> "b@x.io", first_name |-> "Bo", last_name |-> "Ray",
           created_at |-> Iso1, updated_at |-> Iso2, default_address |-> NoAddress]
oMoved == [oFull EXCEPT !.customer = <<cOther>>, !.total_price = "19.9"]

\* A second customer, product and order of a shop: the customer has no email,
\* the order names that customer.
cNoMail == [cOther EXCEPT !.email = ABSENT]
pTwo == [id |-> 501, title |-> "Cap", created_at |-> Iso2,
         variants |-> <<[sku |-> "SKU2", price |-> "5.00"]>>]
oTwo == [id |-> 901, order_number |-> 1002, total_price |-> "5.00", currency |-> "EUR",
         created_at |-> Iso2, customer |-> <<cNoMail>>]

\* What each shop holds remotely, per shop domain; the variable `remote` names
\* the data set in force. All shops use the same remote ids. In "rich" the first
\* shop also has records that lack fields and records the store refuses; "plain"
\* keeps the interleaved runs small, its second shop holding a customer
\* without a first name.
\* The shop that is onboarded while the service runs; it has no records yet.
NewShop == "new.myshopify.com"

Fresh == [customers |-> {}, products |-> {}, orders |-> {}]

Shops == {"one.myshopify.com", "two.myshopify.com", "zero.myshopify.com", NewShop}

Plain == [customers |-> {cFull}, products |-> {pFull}, orders |-> {oFull}]

\* The first shop in "moved": its order embeds the customer without first name,
\* names a customer the collection does not list, or carries no customer.
Moved == [customers |-> {cFull}, products |-> {pFull}, orders |-> {oNoName, oMoved, oBare}]

MovedRemote ==
  [s \in Shops |-> IF s = "one.myshopify.com" THEN Moved
                   ELSE IF s = NewShop THEN Fresh ELSE Plain]

RichRemote ==
  [s \in Shops |->
     IF s = "one.myshopify.com"
     THEN [customers |-> {cFull, cBare, cBad}, products |-> {pFull, pBare, pBad},
           orders |-> {oFull, oBare, oBad}]
     ELSE IF s = NewShop THEN Fresh ELSE Plain]

\* The first shop in "batch": two remote ids of each kind, the first also in a
\* version the store refuses; a pull may list any of these, in any order.
Batch == [customers |-> {cBare, cBad, cNoMail}, products |-> {pFull, pBad, pTwo},
          orders |-> {oFull, oBad, oTwo}]

BatchRemote == [s \in Shops |-> IF s = "one.myshopify.com" THEN Batch ELSE Fresh]

\* The first shop in "early" and "still": its records had the full versions
\* (Earlier is what a pull listed then); its data then changed to AtRest, which
\* every pull lists from then on. A webhook may carry any of the versions.
Drift == [customers |-> {cFull, cBare, cNoMail}, products |-> {pFull, pBare, pTwo},
          orders |-> {oFull, oBare, oTwo}]

DriftRemote == [s \in Shops |-> IF s = "one.myshopify.com" THEN Drift ELSE Fresh]

Earlier == [customers |-> <<cFull>>, products |-> <<pFull>>, orders |-> <<oFull>>]

AtRest == [customers |-> <<cBare, cNoMail>>, products |-> <<pBare, pTwo>>,
           orders |-> <<oBare, oTwo>>]

Nameless == [customers |-> {cNoName}, products |-> {pFull}, orders |-> {oNoName}]

PlainRemote ==
  [s \in Shops |-> IF s = "two.myshopify.com" THEN Nameless
                   ELSE IF s = NewShop THEN Fresh ELSE Plain]

RemoteData(shop) ==
  CASE remote = "rich" -> RichRemote[shop]
    [] remote = "batch" -> BatchRemote[shop]
    [] remote \in {"early", "still"} -> DriftRemote[shop]
    [] remote = "moved" -> MovedRemote[shop]
    [] OTHER -> PlainRemote[shop]

\* The lists of at most n records of S.
RECURSIVE SeqsUpTo(_, _)
SeqsUpTo(S, n) ==
  IF n = 0 THEN {<<>>}
  ELSE LET shorter == SeqsUpTo(S, n - 1)
       IN shorter \cup {Append(s, x) : s \in {t \in shorter : Len(t) = n - 1}, x \in S}

----------------------------------------------------------------------------
(* The store *)

\* The Tenant rows the service starts with; the sync core reads them and never
\* writes them, the onboarding route adds and rewrites them.
TenantRows ==
  { [id |-> "t1", shop |-> "one.myshopify.com", accessToken |-> "shpat_1",
     webhookSecret |-> "whsec_1"],
    [id |-> "t2", shop |-> "two.myshopify.com", accessToken |-> "shpat_2",
     webhookSecret |-> NULL],
    [id |-> "t3", shop |-> "zero.myshopify.com", accessToken |-> NULL,
     webhookSecret |-> NULL] }

\* Tenant ids a caller may pass; "t0" has no row.
TenantIdInputs == {"t0", "t1", "t2", "t3"}

\* Primary keys the client generates for new rows: "a1", "a2", ... for the
\* first tenant, "b1", ... for the second, and so on.
IdNames == [t \in {"t1", "t2", "t3", "t4"} |->
              CASE t = "t1" -> "a" [] t = "t2" -> "b" [] t = "t3" -> "c" [] OTHER -> "d"]

LocalId(tenantId, k) == IdNames[tenantId] \o ToString(k)

NewId(tbl, tenantId) ==
  LocalId(tenantId, Cardinality({r \in tbl : r.tenantId = tenantId}) + 1)

\* prisma.tenant.findUnique
FindTenantById(id) == {t \in tenants : t.id = id}
FindTenantByShop(shop) == {t \in tenants : t.shop = shop}

\* The key compared without the tenant.
ByKey_AnyTenant(tbl, keyField, tenantId, sid) == {r \in tbl : r[keyField] = sid}

\* Rows of a table with the natural key (tenantId, remote id).
ByKey(tbl, keyField, tenantId, sid) ==
  {r \in tbl : r.tenantId = tenantId /\ r[keyField] = sid}

\* An update that clears the columns its data omits.
ApplyData_ClearsOmitted(r, data) ==
  [f \in DOMAIN r |->
     IF f \in DOMAIN data THEN data[f]
     ELSE IF f \in {"id", "tenantId", "shopifyCustomerId", "shopifyProductId", "shopifyOrderId"}
          THEN r[f] ELSE NULL]

\* UPDATE ... SET data: the fields of data are written, the others kept.
ApplyData(r, data) == [f \in DOMAIN r |-> IF f \in DOMAIN data THEN data[f] ELSE r[f]]

\* INSERT of a row: the columns create does not give take their default, NULL.
NewRow(columns, id, create) ==
  [f \in columns |-> IF f = "id" THEN id ELSE IF f \in DOMAIN create THEN create[f] ELSE NULL]

\* A value the store refuses (an Invalid Date, a text that is no decimal).
Refused(data) == \E f \in DOMAIN data : data[f] = INVALID

\* The table without its unique index: no insert is ever refused.
UniqueViolation_NoIndex(tbl, keyField, tenantId, sid) == FALSE

\* The unique index on (tenantId, remote id): an insert of a taken key fails.
UniqueViolation(tbl, keyField, tenantId, sid) == ByKey(tbl, keyField, tenantId, sid) # {}

\* An upsert that replaces the row it finds by a new one.
Upsert_DeleteThenInsert(tbl, columns, keyField, tenantId, sid, update, create) ==
  (tbl \ ByKey(tbl, keyField, tenantId, sid))
    \cup {NewRow(columns, NewId(tbl, tenantId), create)}

\* An upsert that never finds the row it should update.
Upsert_AlwaysInsert(tbl, columns, keyField, tenantId, sid, update, create) ==
  tbl \cup {NewRow(columns, NewId(tbl, tenantId), create)}

\* prisma.<model>.upsert by the compound unique key: the table afterwards.
Upsert(tbl, columns, keyField, tenantId, sid, update, create) ==
  LET hit == ByKey(tbl, keyField, tenantId, sid)
  IN IF hit # {}
     THEN (tbl \ hit) \cup {ApplyData(r, update) : r \in hit}
     ELSE tbl \cup {NewRow(columns, NewId(tbl, tenantId), create)}

\* Whether that upsert is rejected by the store for the values it carries:
\* the client validates the whole argument, update and create alike, before
\* any row is read.
UpsertRefused(tbl, keyField, tenantId, sid, update, create) ==
  Refused(update) \/ Refused(create)

CustomerColumns == {"id", "tenantId", "shopifyCustomerId", "email", "firstName",
                    "lastName", "createdAt", "updatedAt"}
ProductColumns == {"id", "tenantId", "shopifyProductId", "title", "sku", "price", "createdAt"}
OrderColumns == {"id", "tenantId", "shopifyOrderId", "orderNumber", "totalPrice",
                 "currency", "createdAt", "customerId"}

----------------------------------------------------------------------------
(* Reconciliation mappings: one remote record to the upsert's data *)

\* p.variants && p.variants[0]?.sku ? p.variants[0].sku : null
VariantSku(p) ==
  IF Len(p.variants) > 0 /\ Truthy(p.variants[1].sku) THEN p.variants[1].sku ELSE NULL

\* p.variants && p.variants[0]?.price ? p.variants[0].price : "0.00"
VariantPrice(p) ==
  IF Len(p.variants) > 0 /\ Truthy(p.variants[1].price) THEN p.variants[1].price ELSE "0.00"

\* fullSync, product: the update and create objects.
FsProductUpdate(p) ==
  ("title" :> Coalesce(p.title, "Untitled")) @@ ("sku" :> VariantSku(p))
    @@ ("price" :> ToDecimal(VariantPrice(p))) @@ OptDate("createdAt", p.created_at)

FsProductCreate(tenantId, p) ==
  ("tenantId" :> tenantId) @@ ("shopifyProductId" :> String(p.id))
    @@ ("title" :> Coalesce(p.title, "Untitled")) @@ ("sku" :> VariantSku(p))
    @@ ("price" :> ToDecimal(VariantPrice(p))) @@ OptDate("createdAt", p.created_at)

\* Webhook dispatcher, products/ branch.
WhProductUpdate(p) ==
  Opt("title", p.title # ABSENT, p.title) @@ ("sku" :> VariantSku(p))
    @@ ("price" :> ToDecimal(VariantPrice(p))) @@ OptDate("createdAt", p.created_at)

WhProductCreate(tenantId, p) ==
  ("tenantId" :> tenantId) @@ ("shopifyProductId" :> String(p.id))
    @@ ("title" :> Coalesce(p.title, "Untitled")) @@ ("sku" :> VariantSku(p))
    @@ ("price" :> ToDecimal(VariantPrice(p))) @@ OptDate("createdAt", p.created_at)

\* Names and email are written only when the record carries them.
FsCustomerData_KeepsAbsent(c) ==
  Opt("email", c.email # ABSENT, c.email) @@ Opt("firstName", c.first_name # ABSENT, c.first_name)
    @@ Opt("lastName", c.last_name # ABSENT, c.last_name)
    @@ OptDate("createdAt", c.created_at) @@ OptDate("updatedAt", c.updated_at)

\* fullSync, customer: `data`, used for update and (with the key) for create.
FsCustomerData(c) ==
  ("email" :> Coalesce(c.email, NULL)) @@ ("firstName" :> Coalesce(c.first_name, NULL))
    @@ ("lastName" :> Coalesce(c.last_name, NULL))
    @@ OptDate("createdAt", c.created_at) @@ OptDate("updatedAt", c.updated_at)

FsCustomerCreate(tenantId, c) ==
  ("tenantId" :> tenantId) @@ ("shopifyCustomerId" :> String(c.id)) @@ FsCustomerData(c)

\* c.default_address?.first_name
AddressField(c, f) == IF Len(c.default_address) > 0 THEN c.default_address[1][f] ELSE ABSENT

\* sync-customers endpoint: names fall back to the default address.
ScCustomerData(c) ==
  ("email" :> Coalesce(c.email, NULL))
    @@ ("firstName" :> Coalesce(Coalesce(c.first_name, AddressField(c, "first_name")), NULL))
    @@ ("lastName" :> Coalesce(Coalesce(c.last_name, AddressField(c, "last_name")), NULL))
    @@ OptDate("createdAt", c.created_at) @@ OptDate("updatedAt", c.updated_at)

ScCustomerCreate(tenantId, c) ==
  ("tenantId" :> tenantId) @@ ("shopifyCustomerId" :> String(c.id)) @@ ScCustomerData(c)

\* Webhook dispatcher, customers/ branch and the customer embedded in an order.
WhCustomerUpdate(c) ==
  Opt("email", c.email # ABSENT, c.email) @@ Opt("firstName", c.first_name # ABSENT, c.first_name)
    @@ Opt("lastName", c.last_name # ABSENT, c.last_name) @@ OptDate("updatedAt", c.updated_at)

WhCustomerCreate(tenantId, c) ==
  ("tenantId" :> tenantId) @@ ("shopifyCustomerId" :> String(c.id))
    @@ ("email" :> Coalesce(c.email, NULL)) @@ ("firstName" :> Coalesce(c.first_name, NULL))
    @@ ("lastName" :> Coalesce(c.last_name, NULL))
    @@ OptDate("createdAt", c.created_at) @@ OptDate("updatedAt", c.updated_at)

\* o.customer?.id, as a condition
HasCustomerId(o) == Len(o.customer) > 0 /\ o.customer[1].id # 0

\* An unresolved customer is written as null.
FsOrderData_NullsCustomer(o, customerId) ==
  Opt("orderNumber", o.order_number # 0, String(o.order_number))
    @@ ("totalPrice" :> ToDecimal(Coalesce(o.total_price, "0.00")))
    @@ Opt("currency", o.currency # ABSENT, o.currency)
    @@ OptDate("createdAt", o.created_at)
    @@ ("customerId" :> (IF customerId = NONE THEN NULL ELSE customerId))

\* fullSync, order: `op`; customerId is the looked-up local id or NONE (undefined).
FsOrderData(o, customerId) ==
  Opt("orderNumber", o.order_number # 0, String(o.order_number))
    @@ ("totalPrice" :> ToDecimal(Coalesce(o.total_price, "0.00")))
    @@ Opt("currency", o.currency # ABSENT, o.currency)
    @@ OptDate("createdAt", o.created_at)
    @@ Opt("customerId", customerId # NONE, customerId)

FsOrderCreate(tenantId, o, customerId) ==
  ("tenantId" :> tenantId) @@ ("shopifyOrderId" :> String(o.id)) @@ FsOrderData(o, customerId)

\* customerId: customerId ?? null
WhOrderUpdate_NullsCustomer(o, customerId) ==
  Opt("orderNumber", o.order_number # 0, String(o.order_number))
    @@ ("totalPrice" :> ToDecimal(Coalesce(o.total_price, "0.00")))
    @@ Opt("currency", o.currency # ABSENT, o.currency)
    @@ OptDate("createdAt", o.created_at)
    @@ ("customerId" :> (IF customerId = NONE THEN NULL ELSE customerId))

\* Webhook dispatcher, orders/ branch.
WhOrderUpdate(o, customerId) ==
  Opt("orderNumber", o.order_number # 0, String(o.order_number))
    @@ ("totalPrice" :> ToDecimal(Coalesce(o.total_price, "0.00")))
    @@ Opt("currency", o.currency # ABSENT, o.currency)
    @@ OptDate("createdAt", o.created_at)
    @@ Opt("customerId", customerId # NONE, customerId)

WhOrderCreate(tenantId, o, customerId) ==
  ("tenantId" :> tenantId) @@ ("shopifyOrderId" :> String(o.id)) @@ WhOrderUpdate(o, customerId)

----------------------------------------------------------------------------
(* The reconciliation routines as functions of the table *)

FsUpsertProduct(tbl, tenantId, p) ==
  Upsert(tbl, ProductColumns, "shopifyProductId", tenantId, String(p.id),
         FsProductUpdate(p), FsProductCreate(tenantId, p))
FsProductRefused(tbl, tenantId, p) ==
  UpsertRefused(tbl, "shopifyProductId", tenantId, String(p.id),
                FsProductUpdate(p), FsProductCreate(tenantId, p))

WhUpsertProduct(tbl, tenantId, p) ==
  Upsert(tbl, ProductColumns, "shopifyProductId", tenantId, String(p.id),
         WhProductUpdate(p), WhProductCreate(tenantId, p))
WhProductRefused(tbl, tenantId, p) ==
  UpsertRefused(tbl, "shopifyProductId", tenantId, String(p.id),
                WhProductUpdate(p), WhProductCreate(tenantId, p))

FsUpsertCustomer(tbl, tenantId, c) ==
  Upsert(tbl, CustomerColumns, "shopifyCustomerId", tenantId, String(c.id),
         FsCustomerData(c), FsCustomerCreate(tenantId, c))
FsCustomerRefused(tbl, tenantId, c) ==
  UpsertRefused(tbl, "shopifyCustomerId", tenantId, String(c.id),
                FsCustomerData(c), FsCustomerCreate(tenantId, c))

ScUpsertCustomer(tbl, tenantId, c) ==
  Upsert(tbl, CustomerColumns, "shopifyCustomerId", tenantId, String(c.id),
         ScCustomerData(c), ScCustomerCreate(tenantId, c))
ScCustomerRefused(tbl, tenantId, c) ==
  UpsertRefused(tbl, "shopifyCustomerId", tenantId, String(c.id),
                ScCustomerData(c), ScCustomerCreate(tenantId, c))

WhUpsertCustomer(tbl, tenantId, c) ==
  Upsert(tbl, CustomerColumns, "shopifyCustomerId", tenantId, String(c.id),
         WhCustomerUpdate(c), WhCustomerCreate(tenantId, c))
WhCustomerRefused(tbl, tenantId, c) ==
  UpsertRefused(tbl, "shopifyCustomerId", tenantId, String(c.id),
                WhCustomerUpdate(c), WhCustomerCreate(tenantId, c))

FsUpsertOrder(tbl, tenantId, o, customerId) ==
  Upsert(tbl, OrderColumns, "shopifyOrderId", tenantId, String(o.id),
         FsOrderData(o, customerId), FsOrderCreate(tenantId, o, customerId))
FsOrderRefused(tbl, tenantId, o, customerId) ==
  UpsertRefused(tbl, "shopifyOrderId", tenantId, String(o.id),
                FsOrderData(o, customerId), FsOrderCreate(tenantId, o, customerId))

WhUpsertOrder(tbl, tenantId, o, customerId) ==
  Upsert(tbl, OrderColumns, "shopifyOrderId", tenantId, String(o.id),
         WhOrderUpdate(o, customerId), WhOrderCreate(tenantId, o, customerId))
WhOrderRefused(tbl, tenantId, o, customerId) ==
  UpsertRefused(tbl, "shopifyOrderId", tenantId, String(o.id),
                WhOrderUpdate(o, customerId), WhOrderCreate(tenantId, o, customerId))

\* The lookup by remote id alone.
FindCustomerIds_Unscoped(tbl, tenantId, sid) ==
  LET hit == {r \in tbl : r.shopifyCustomerId = sid}
  IN IF hit = {} THEN {NONE} ELSE {r.id : r \in hit}

\* prisma.customer.findFirst({ where: { tenantId, shopifyCustomerId } }): the
\* local id of a matching row, or NONE.
FindCustomerIds(tbl, tenantId, sid) ==
  LET hit == ByKey(tbl, "shopifyCustomerId", tenantId, sid)
  IN IF hit = {} THEN {NONE} ELSE {r.id : r \in hit}

----------------------------------------------------------------------------
(* Remote API, as fullSync and the endpoints see it *)

\* `${res.status}` in the error text.
StatusText(n) ==
  CASE n = 401 -> "401"
    [] n = 404 -> "404"
    [] n = 429 -> "429"
    [] n = 101 -> "101"
    [] n = 500 -> "500"
    [] OTHER -> "200"

\* makeClient: a plain object of three fields.
MakeClient(shop, accessToken) ==
  [shop |-> shop, accessToken |-> accessToken, apiVersion |-> "2025-04"]

ClientOf(tenantId) ==
  LET t == CHOOSE x \in tenants : x.id = tenantId IN MakeClient(t.shop, t.accessToken)

\* The list the first shop holds while its data does not change.
Listing(path) == IF remote = "still" THEN AtRest[path] ELSE Earlier[path]

\* The whole collection `path` of a shop as a pull can find it: any list of
\* the shop's records (MaxItems bounds its length) or, where the remote data
\* is known, the one list the shop holds at the time.
RemoteLists(shop, path) ==
  IF remote \in {"early", "still"}
  THEN {IF RemoteData(shop)[path] = {} THEN <<>> ELSE Listing(path)}
  ELSE SeqsUpTo(RemoteData(shop)[path], MaxItems)

\* No response at hand.
NoRes == [status |-> 0, more |-> FALSE]

\* What is left of the collection once `all` has been collected: the lists
\* `all` is the beginning of, without it.
Rest(shop, path, all) ==
  {SubSeq(s, Len(all) + 1, Len(s)) :
     s \in {t \in RemoteLists(shop, path) :
              Len(all) <= Len(t) /\ SubSeq(t, 1, Len(all)) = all}}

\* The records one page can hold after `all`: with a rel="next" link some
\* but not all of what is left, without one all of it.
PageItemsAfter(shop, path, all, more) ==
  IF more
  THEN UNION {{SubSeq(r, 1, n) : n \in 1..(Len(r) - 1)} : r \in Rest(shop, path, all)}
  ELSE Rest(shop, path, all)

\* What `await fetch(url, ...)` of one page can resolve to (shopifyFetch):
\* the status and whether the Link header names a next page. The remote
\* refuses a client that carries no access token.
FetchOutcomes(client, path, all) ==
  LET failures == IF client.accessToken = NULL THEN {401} ELSE {429, 500}
      links == IF client.accessToken = NULL THEN {}
               ELSE {m \in BOOLEAN : PageItemsAfter(client.shop, path, all, m) # {}}
  IN {[status |-> 200, more |-> m] : m \in links}
       \cup {[status |-> st, more |-> FALSE] : st \in failures}

\* The Error shopifyFetch throws: `Shopify ${path} ${res.status}: ...`
ShopifyError(path, status) == <<"error", "Shopify", path, StatusText(status)>>

\* fetchShopifyCustomerById: client.get(...) inside try/catch, null on any
\* error. resp is what the remote would answer (<<>> for 404).
FetchShopifyCustomerById(client, resp) ==
  IF "get" \in DOMAIN client THEN resp ELSE <<>>

----------------------------------------------------------------------------
(* Processes: one per request or scheduled pass in flight *)

NoCounts == [products |-> 0, customers |-> 0, orders |-> 0, backfilled |-> 0]

IdleProc == [pc |-> "idle", op |-> "none", tenantId |-> "", hook |-> <<>>, queue |-> <<>>,
             found |-> NONE, counts |-> NoCounts, wrote |-> NoCounts, warned |-> 0,
             pulls |-> <<>>, all |-> <<>>, res |-> NoRes, result |-> <<>>]

\* The function returns (result <<"ok">>) or throws (result <<"error", ...>>).
Finish(l, result) ==
  [l EXCEPT !.pc = "done", !.queue = <<>>, !.found = NONE, !.all = <<>>, !.res = NoRes,
            !.result = result]

\* Where a loop goes after the record at the head of the queue.
OrderPc(q) == IF HasCustomerId(Head(q)) THEN "order_find" ELSE "order_upsert"

LoopPc(loop, q) == IF loop = "orders" THEN OrderPc(q) ELSE loop

AfterHead(l, loop, next) ==
  LET q == Tail(l.queue)
  IN IF q = <<>>
     THEN IF next = "done" THEN Finish(l, <<"ok">>)
          ELSE [l EXCEPT !.queue = q, !.found = NONE, !.pc = next]
     ELSE [l EXCEPT !.queue = q, !.found = NONE, !.pc = LoopPc(loop, q)]

\* The store accepted the write of the record at the head (the log of what
\* this pass or request wrote, per collection).
Wrote(l, field) == [l EXCEPT !.wrote[field] = @ + 1]

\* Every counted record counts twice.
Counted_Twice(l, field, loop, next) ==
  AfterHead([l EXCEPT !.counts[field] = @ + 2], loop, next)

\* The record at the head was upserted: count it and go on.
Counted(l, field, loop, next) ==
  AfterHead([l EXCEPT !.counts[field] = @ + 1], loop, next)

\* One try around the whole loop: the record's error ends the collection.
Skipped_LeavesLoop(l, loop, next) ==
  IF next = "done" THEN Finish([l EXCEPT !.warned = @ + 1], <<"ok">>)
  ELSE [l EXCEPT !.warned = @ + 1, !.queue = <<>>, !.found = NONE, !.pc = next]

\* The record's error leaves the loop and the pass.
Skipped_Rethrow(l, loop, next) == Finish(l, <<"error", "record failed">>)

\* catch (e) { console.warn(...) } around one record: log it, go on with the next.
Skipped(l, loop, next) == AfterHead([l EXCEPT !.warned = @ + 1], loop, next)

\* A collection pull threw: nothing catches it inside fullSync.
PullFailed(l, path, status) ==
  Finish([l EXCEPT !.pulls = Append(@, path)], ShopifyError(path, status))

\* A collection pull returned its list.
Pulled(l, path, items, loop, next) ==
  LET r == [l EXCEPT !.pulls = Append(@, path), !.all = <<>>, !.res = NoRes]
  IN IF items = <<>> THEN [r EXCEPT !.pc = next]
     ELSE [r EXCEPT !.queue = items, !.pc = LoopPc(loop, items)]

\* The step in which a page's body arrives: shopifyFetch throws on a
\* non-success status; else paginateAll appends the page and, with a next
\* link, requests the next page (pc `at` again), without one returns the list.
Read(l, page, at, path, loop, next) ==
  IF l.res.status # 200 THEN PullFailed(l, path, l.res.status)
  ELSE IF l.res.more THEN [l EXCEPT !.all = @ \o page, !.res = NoRes, !.pc = at]
  ELSE Pulled(l, path, l.all \o page, loop, next)

\* The bodies the page at hand can have.
Bodies(l, client, path) ==
  IF l.res.status # 200 THEN {<<>>}
  ELSE PageItemsAfter(client.shop, path, l.all, l.res.more)

Tenant(p) == proc[p].tenantId

----------------------------------------------------------------------------
(* fullSync(tenantId) *)

\* Only the shop domain is looked at.
MissingCredentials_ShopOnly(t) == t.shop \in {NULL, ""}

\* !tenant.accessToken || !tenant.shop
MissingCredentials(t) == t.accessToken \in {NULL, ""} \/ t.shop \in {NULL, ""}

\* What fullSync throws when a store call outside its try blocks rejects.
StoreError == <<"error", "store failure">>

\* The entry of fullSync(tid): the tenant lookup, which the store answers
\* (dbOk) or rejects, and the credentials check.
BeginFullSync(tid, dbOk) ==
  LET found == FindTenantById(tid)
      l == [IdleProc EXCEPT !.op = "fullSync", !.tenantId = tid]
  IN IF ~dbOk THEN Finish(l, StoreError)
     ELSE IF found = {} THEN Finish(l, <<"error", "tenant not found">>)
     ELSE IF \E t \in found : MissingCredentials(t)
          THEN Finish(l, <<"error", "tenant missing accessToken or shop">>)
          ELSE [l EXCEPT !.pc = "pull_products"]

FS_Begin(p) ==
  /\ p \in SyncProcs
  /\ proc[p].pc = "idle"
  /\ \E tid \in TenantIdInputs, dbOk \in BOOLEAN :
       proc' = [proc EXCEPT ![p] = BeginFullSync(tid, dbOk)]
  /\ UNCHANGED <<tenants, remote, customers, products, orders, pull, auth, cron>>

\* A pass at pc pull_<collection> has sent the request of a page and waits
\* for its response; at read_<collection> shopifyFetch has the status and the
\* headers and waits for the body (res.json(), or res.text() before it throws).
FS_Fetch(p, at, read, path) ==
  /\ proc[p].op = "fullSync"
  /\ proc[p].pc = at
  /\ \E res \in FetchOutcomes(ClientOf(Tenant(p)), path, proc[p].all) :
       proc' = [proc EXCEPT ![p] = [@ EXCEPT !.res = res, !.pc = read]]
  /\ UNCHANGED <<tenants, remote, customers, products, orders, pull, auth, cron>>

FS_Pull(p, read, at, path, loop, next) ==
  /\ proc[p].op = "fullSync"
  /\ proc[p].pc = read
  /\ \E page \in Bodies(proc[p], ClientOf(Tenant(p)), path) :
       proc' = [proc EXCEPT ![p] = Read(@, page, at, path, loop, next)]
  /\ UNCHANGED <<tenants, remote, customers, products, orders, pull, auth, cron>>

FS_FetchProducts(p) == FS_Fetch(p, "pull_products", "read_products", "products")

\* With no product to upsert the pass goes straight to the orders.
FS_PullProducts_SkipsCustomers(p) ==
  FS_Pull(p, "read_products", "pull_products", "products", "products", "pull_orders")

FS_PullProducts(p) ==
  FS_Pull(p, "read_products", "pull_products", "products", "products", "pull_customers")

FS_FetchCustomers(p) == FS_Fetch(p, "pull_customers", "read_customers", "customers")

FS_PullCustomers(p) ==
  FS_Pull(p, "read_customers", "pull_customers", "customers", "customers", "pull_orders")

FS_FetchOrders(p) == FS_Fetch(p, "pull_orders", "read_orders", "orders")

FS_PullOrders(p) ==
  FS_Pull(p, "read_orders", "pull_orders", "orders", "orders", "backfill_select")

FS_Product(p) ==
  /\ proc[p].op = "fullSync"
  /\ proc[p].pc = "products"
  /\ \E dbOk \in BOOLEAN :
       LET item == Head(proc[p].queue)
           ok == dbOk /\ ~FsProductRefused(products, Tenant(p), item)
       IN /\ products' = IF ok THEN FsUpsertProduct(products, Tenant(p), item) ELSE products
          /\ proc' = [proc EXCEPT ![p] =
               IF ok THEN Counted(Wrote(@, "products"), "products", "products", "pull_customers")
               ELSE Skipped(@, "products", "pull_customers")]
  /\ UNCHANGED <<tenants, remote, customers, orders, pull, auth, cron>>

\* The composite upsert; when it throws, the find/create fallback takes over.
FS_Customer(p) ==
  /\ proc[p].op = "fullSync"
  /\ proc[p].pc = "customers"
  /\ \E dbOk \in BOOLEAN :
       LET item == Head(proc[p].queue)
           ok == dbOk /\ ~FsCustomerRefused(customers, Tenant(p), item)
       IN /\ customers' = IF ok THEN FsUpsertCustomer(customers, Tenant(p), item)
                          ELSE customers
          /\ proc' = [proc EXCEPT ![p] =
               IF ok THEN Counted(Wrote(@, "customers"), "customers", "customers", "pull_orders")
               ELSE [@ EXCEPT !.pc = "cust_find"]]
  /\ UNCHANGED <<tenants, remote, products, orders, pull, auth, cron>>

\* Fallback: prisma.customer.findFirst({ where: { tenantId, shopifyCustomerId } })
FS_CustFind(p) ==
  /\ proc[p].op = "fullSync"
  /\ proc[p].pc = "cust_find"
  /\ \E dbOk \in BOOLEAN :
       \E id \in FindCustomerIds(customers, Tenant(p), String(Head(proc[p].queue).id)) :
          proc' = [proc EXCEPT ![p] =
            IF dbOk THEN [@ EXCEPT !.found = id, !.pc = "cust_write"]
            ELSE Skipped(@, "customers", "pull_orders")]
  /\ UNCHANGED <<tenants, remote, customers, products, orders, pull, auth, cron>>

\* Fallback: update by local id when a row was found, create otherwise.
FS_CustWrite(p) ==
  /\ proc[p].op = "fullSync"
  /\ proc[p].pc = "cust_write"
  /\ \E dbOk \in BOOLEAN :
       LET item == Head(proc[p].queue)
           sid == String(item.id)
           data == FsCustomerData(item)
           create == FsCustomerCreate(Tenant(p), item)
           existing == proc[p].found
           ok == IF existing # NONE
                 THEN dbOk /\ ~Refused(data)
                 ELSE /\ dbOk
                      /\ ~Refused(create)
                      /\ ~UniqueViolation(customers, "shopifyCustomerId", Tenant(p), sid)
       IN /\ customers' =
               IF ~ok THEN customers
               ELSE IF existing # NONE
                    THEN {IF r.id = existing THEN ApplyData(r, data) ELSE r : r \in customers}
                    ELSE customers \cup {NewRow(CustomerColumns, NewId(customers, Tenant(p)), create)}
          /\ proc' = [proc EXCEPT ![p] =
               IF ok THEN Counted(Wrote(@, "customers"), "customers", "customers", "pull_orders")
               ELSE Skipped(@, "customers", "pull_orders")]
  /\ UNCHANGED <<tenants, remote, products, orders, pull, auth, cron>>

\* The order's customer reference is resolved by a lookup within the tenant.
FS_OrderFind(p) ==
  /\ proc[p].op = "fullSync"
  /\ proc[p].pc = "order_find"
  /\ \E dbOk \in BOOLEAN :
       \E id \in FindCustomerIds(customers, Tenant(p),
                                 String(Head(proc[p].queue).customer[1].id)) :
          proc' = [proc EXCEPT ![p] =
            IF dbOk THEN [@ EXCEPT !.found = id, !.pc = "order_upsert"]
            ELSE Skipped(@, "orders", "backfill_select")]
  /\ UNCHANGED <<tenants, remote, customers, products, orders, pull, auth, cron>>

FS_Order(p) ==
  /\ proc[p].op = "fullSync"
  /\ proc[p].pc = "order_upsert"
  /\ \E dbOk \in BOOLEAN :
       LET item == Head(proc[p].queue)
           customerId == proc[p].found
           ok == dbOk /\ ~FsOrderRefused(orders, Tenant(p), item, customerId)
       IN /\ orders' = IF ok THEN FsUpsertOrder(orders, Tenant(p), item, customerId)
                       ELSE orders
          /\ proc' = [proc EXCEPT ![p] =
               IF ok THEN Counted(Wrote(@, "orders"), "orders", "orders", "backfill_select")
               ELSE Skipped(@, "orders", "backfill_select")]
  /\ UNCHANGED <<tenants, remote, customers, products, pull, auth, cron>>

----------------------------------------------------------------------------
(* fullSync: the backfill pass *)

\* take: 1000
BackfillTake == 1000

\* The orders in which the store may return the rows of S.
RECURSIVE Orderings(_)
Orderings(S) ==
  IF S = {} THEN {<<>>}
  ELSE UNION {{<<x>> \o s : s \in Orderings(S \ {x})} : x \in S}

\* No limit: every row found is returned.
Take_All(s, n) == s

Take(s, n) == IF Len(s) <= n THEN s ELSE SubSeq(s, 1, n)

\* Largest number of rows of which every order is tried, and the largest
\* remote id a row may carry.
MaxShuffled == 4
MaxRemoteId == 1100

\* The number whose digits the text is.
Number(text) == CHOOSE k \in 0..MaxRemoteId : ToString(k) = text

\* The rows filed under the keys lo..hi, by ascending key.
RECURSIVE Between(_, _, _)
Between(byKey, lo, hi) ==
  IF lo > hi THEN <<>>
  ELSE IF lo = hi THEN (IF lo \in DOMAIN byKey THEN <<byKey[lo]>> ELSE <<>>)
  ELSE LET mid == (lo + hi) \div 2
       IN Between(byKey, lo, mid) \o Between(byKey, mid + 1, hi)

\* Customer rows of one tenant by ascending remote id (unique per tenant).
ByRemoteId(S) ==
  LET keyed == {<<Number(r.shopifyCustomerId), r>> : r \in S}
      byKey == [k \in {x[1] : x \in keyed} |-> (CHOOSE x \in keyed : x[1] = k)[2]]
  IN Between(byKey, 0, MaxRemoteId)

Rotations(s) == {SubSeq(s, k, Len(s)) \o SubSeq(s, 1, k - 1) : k \in 1..Len(s)}

\* The orders in which a findMany without orderBy may return the customer rows
\* S: any order of up to MaxShuffled rows; of more rows, the order by remote id
\* started at any row (so that a cut after `take` rows can leave out any row).
RowOrders(S) ==
  IF Cardinality(S) <= MaxShuffled THEN Orderings(S) ELSE Rotations(ByRemoteId(S))

\* Only the first name is looked at.
BackfillMissing_FirstNameOnly(tbl, tenantId) ==
  {[id |-> r.id, shopifyCustomerId |-> r.shopifyCustomerId, firstName |-> r.firstName,
    lastName |-> r.lastName, email |-> r.email] :
     r \in {x \in tbl : x.tenantId = tenantId /\ x.firstName = NULL}}

\* where: { tenantId, OR: [{ firstName: null }, { email: null }] }, with select
BackfillMissing(tbl, tenantId) ==
  {[id |-> r.id, shopifyCustomerId |-> r.shopifyCustomerId, firstName |-> r.firstName,
    lastName |-> r.lastName, email |-> r.email] :
     r \in {x \in tbl : x.tenantId = tenantId /\ (x.firstName = NULL \/ x.email = NULL)}}

\* updateData of the backfill: the remote values that are non-empty and differ.
BackfillChanges(row, sc) ==
  Opt("email", Truthy(sc.email) /\ sc.email # row.email, sc.email)
    @@ Opt("firstName", Truthy(sc.first_name) /\ sc.first_name # row.firstName, sc.first_name)
    @@ Opt("lastName", Truthy(sc.last_name) /\ sc.last_name # row.lastName, sc.last_name)

BackfillUpdateData(row, sc) ==
  LET ch == BackfillChanges(row, sc)
  IN IF DOMAIN ch = {} THEN ch ELSE ch @@ OptDate("updatedAt", sc.updated_at)

FS_BackfillSelect(p) ==
  /\ proc[p].op = "fullSync"
  /\ proc[p].pc = "backfill_select"
  /\ \E dbOk \in BOOLEAN :
     \E q \in RowOrders(BackfillMissing(customers, Tenant(p))) :
       proc' = [proc EXCEPT ![p] =
         IF ~dbOk THEN Finish(@, StoreError)
         ELSE IF q = <<>> THEN Finish(@, <<"ok">>)
         ELSE [@ EXCEPT !.queue = Take(q, BackfillTake), !.pc = "backfill"]]
  /\ UNCHANGED <<tenants, remote, customers, products, orders, pull, auth, cron>>

\* One selected row: fetch its remote customer and write what changed.
FS_Backfill(p) ==
  /\ proc[p].op = "fullSync"
  /\ proc[p].pc = "backfill"
  /\ \E dbOk \in BOOLEAN :
     \E resp \in {<<>>} \cup {<<c>> : c \in {x \in RemoteData(ClientOf(Tenant(p)).shop).customers :
                                             String(x.id) = Head(proc[p].queue).shopifyCustomerId}} :
       LET row == Head(proc[p].queue)
           got == FetchShopifyCustomerById(ClientOf(Tenant(p)), resp)
           data == IF got = <<>> THEN NoFields ELSE BackfillUpdateData(row, got[1])
           write == DOMAIN data # {}
           ok == write /\ dbOk /\ ~Refused(data)
       IN /\ customers' =
               IF ok THEN {IF r.id = row.id THEN ApplyData(r, data) ELSE r : r \in customers}
               ELSE customers
          /\ proc' = [proc EXCEPT ![p] =
               IF ok THEN Counted(Wrote(@, "backfilled"), "backfilled", "backfill", "done")
               ELSE IF write THEN Skipped(@, "backfill", "done")
               ELSE AfterHead(@, "backfill", "done")]
  /\ UNCHANGED <<tenants, remote, products, orders, pull, auth, cron>>

----------------------------------------------------------------------------
(* POST /api/:tenantId/sync-customers *)

SC_Begin(p) ==
  /\ p \in SyncProcs
  /\ proc[p].pc = "idle"
  /\ \E tid \in TenantIdInputs, dbOk \in BOOLEAN :
       LET l == [IdleProc EXCEPT !.op = "syncCustomers", !.tenantId = tid]
       IN proc' = [proc EXCEPT ![p] =
            IF ~dbOk THEN Finish(l, <<"error", "failed">>)
            ELSE IF FindTenantById(tid) = {} THEN Finish(l, <<"error", "tenant not found">>)
            ELSE [l EXCEPT !.pc = "sc_pull"]]
  /\ UNCHANGED <<tenants, remote, customers, products, orders, pull, auth, cron>>

\* The response of a page of fetchAllCustomers arrives.
SC_Fetch(p) ==
  /\ proc[p].op = "syncCustomers"
  /\ proc[p].pc = "sc_pull"
  /\ \E res \in FetchOutcomes(ClientOf(Tenant(p)), "customers", proc[p].all) :
       proc' = [proc EXCEPT ![p] = [@ EXCEPT !.res = res, !.pc = "sc_read"]]
  /\ UNCHANGED <<tenants, remote, customers, products, orders, pull, auth, cron>>

\* The body of the page arrives: the next page is requested, or the list is
\* returned to the route, or the route's catch answers 500.
SC_Pull(p) ==
  /\ proc[p].op = "syncCustomers"
  /\ proc[p].pc = "sc_read"
  /\ \E page \in Bodies(proc[p], ClientOf(Tenant(p)), "customers") :
       proc' = [proc EXCEPT ![p] =
         Read(@, page, "sc_pull", "customers", "sc_customers", "sc_respond")]
  /\ UNCHANGED <<tenants, remote, customers, products, orders, pull, auth, cron>>

\* No try/catch around the record here: a failed upsert ends the request.
SC_Customer(p) ==
  /\ proc[p].op = "syncCustomers"
  /\ proc[p].pc = "sc_customers"
  /\ \E dbOk \in BOOLEAN :
       LET item == Head(proc[p].queue)
           ok == dbOk /\ ~ScCustomerRefused(customers, Tenant(p), item)
       IN /\ customers' = IF ok THEN ScUpsertCustomer(customers, Tenant(p), item)
                          ELSE customers
          /\ proc' = [proc EXCEPT ![p] =
               IF ok THEN Counted(Wrote(@, "customers"), "customers", "sc_customers", "sc_respond")
               ELSE Finish(@, <<"error", "failed">>)]
  /\ UNCHANGED <<tenants, remote, products, orders, pull, auth, cron>>

\* findMany of the tenant's customers, then the response; the route's catch
\* answers 500 when the findMany rejects.
SC_Respond(p) ==
  /\ proc[p].op = "syncCustomers"
  /\ proc[p].pc = "sc_respond"
  /\ \E dbOk \in BOOLEAN :
       proc' = [proc EXCEPT ![p] = Finish(@, IF dbOk THEN <<"ok">> ELSE <<"error", "failed">>)]
  /\ UNCHANGED <<tenants, remote, customers, products, orders, pull, auth, cron>>

----------------------------------------------------------------------------
(* verifyHmac(rawBody, hmacHeader, secret) *)

\* JSON.stringify of a payload: the compact text, absent fields left out.
JsonStringify(x) ==
  CASE x = cFull ->
         "{\"id\":100,\"email\":\"a@x.io\",\"first_name\":\"Ann\",\"last_name\":\"Lee\",\"created_at\":\"2025-01-01T00:00:00Z\",\"updated_at\":\"2025-02-01T00:00:00Z\"}"
    [] x = cBare ->
         "{\"id\":100,\"default_address\":{\"first_name\":\"Ann\",\"last_name\":\"Lee\"}}"
    [] x = cBad ->
         "{\"id\":100,\"email\":\"a@x.io\",\"first_name\":\"Ann\",\"last_name\":\"Lee\",\"created_at\":\"yesterday\"}"
    [] x = cNoName ->
         "{\"id\":100,\"email\":\"a@x.io\",\"last_name\":\"Lee\",\"created_at\":\"2025-01-01T00:00:00Z\",\"updated_at\":\"2025-02-01T00:00:00Z\"}"
    [] x = pFull ->
         "{\"id\":500,\"title\":\"Shirt\",\"created_at\":\"2025-01-01T00:00:00Z\",\"variants\":[{\"sku\":\"SKU1\",\"price\":\"9.99\"}]}"
    [] x = pBare ->
         "{\"id\":500,\"variants\":[]}"
    [] x = pBad ->
         "{\"id\":500,\"title\":\"Shirt\",\"variants\":[{\"sku\":\"SKU1\",\"price\":\"free\"}]}"
    [] x = oFull ->
         "{\"id\":900,\"order_number\":1001,\"total_price\":\"9.99\",\"currency\":\"USD\",\"created_at\":\"2025-01-01T00:00:00Z\",\"customer\":{\"id\":100,\"email\":\"a@x.io\",\"first_name\":\"Ann\",\"last_name\":\"Lee\",\"created_at\":\"2025-01-01T00:00:00Z\",\"updated_at\":\"2025-02-01T00:00:00Z\"}}"
    [] x = oBare ->
         "{\"id\":900,\"order_number\":0}"
    [] x = oBad ->
         "{\"id\":900,\"order_number\":1001,\"total_price\":\"free\",\"currency\":\"USD\",\"created_at\":\"2025-01-01T00:00:00Z\"}"
    [] x = oNoName ->
         "{\"id\":900,\"order_number\":1001,\"total_price\":\"9.99\",\"currency\":\"USD\",\"created_at\":\"2025-01-01T00:00:00Z\",\"customer\":{\"id\":100,\"email\":\"a@x.io\",\"last_name\":\"Lee\",\"created_at\":\"2025-01-01T00:00:00Z\",\"updated_at\":\"2025-02-01T00:00:00Z\"}}"
    [] x = oMoved ->
         "{\"id\":900,\"order_number\":1001,\"total_price\":\"19.9\",\"currency\":\"USD\",\"created_at\":\"2025-01-01T00:00:00Z\",\"customer\":{\"id\":101,\"email\":\"b@x.io\",\"first_name\":\"Bo\",\"last_name\":\"Ray\",\"created_at\":\"2025-01-01T00:00:00Z\",\"updated_at\":\"2025-02-01T00:00:00Z\"}}"

\* A body as the remote may also write it, with spaces after the separators.
SpacedBody == "{\"id\": 500, \"variants\": []}"

\* A body one byte away from JsonStringify(pBare).
OtherBody == "{\"id\":501,\"variants\":[]}"

PayloadRecords == {cFull, cBare, cBad, cNoName, pFull, pBare, pBad, oFull, oBare, oBad, oNoName, oMoved}

\* express.json: the payload a body text parses to.
JsonParse(text) ==
  IF text = SpacedBody THEN pBare
  ELSE CHOOSE x \in PayloadRecords : JsonStringify(x) = text

\* Secrets: of the first tenant, the process-wide default, and a stranger's.
Secrets == {"whsec_1", "whsec_default", "whsec_x"}

\* crypto.createHmac("sha256", secret).update(data).digest("base64")
HmacSha256Base64(secret, data) ==
  CASE secret = "whsec_1" /\ data = JsonStringify(cFull) ->
         "Xa1TN/rEkUBJ4Z8yoByxUzrorj2crKU5NOh3gPBfmVQ="
    [] secret = "whsec_1" /\ data = JsonStringify(cBare) ->
         "5mkMeb/2SxAsfyF6c8wIjh4ajnM/H5JkYJrG0esDNsM="
    [] secret = "whsec_1" /\ data = JsonStringify(cBad) ->
         "S1h9YxtF0fN/Gp+GSkWt+ic4x248hn9GFYQP6/Y+58Y="
    [] secret = "whsec_1" /\ data = JsonStringify(cNoName) ->
         "LrCYcGSpBcAnhnujrBRdM2gAQ6+Ji6WMHIgcNOsJAu8="
    [] secret = "whsec_1" /\ data = JsonStringify(pFull) ->
         "emJQT2iTKqPri2C6IbFRm5kmsaFmbkvWRjjOKlEhxkc="
    [] secret = "whsec_1" /\ data = JsonStringify(pBare) ->
         "lz9tNA4Nc6scJp+glijukbaWA+uNKgxpi9s18QuMVRc="
    [] secret = "whsec_1" /\ data = JsonStringify(pBad) ->
         "JGhkwjpvxpPGe8zG9lu4MwUb8/bPki3fc6abHW7ZLI0="
    [] secret = "whsec_1" /\ data = JsonStringify(oFull) ->
         "zm1oPE6mWewqP6iEE1avW1i+3XzoJjwXrNspX8q95Yw="
    [] secret = "whsec_1" /\ data = JsonStringify(oBare) ->
         "aoNIvsu/pJuFZ0cCab4rW8iTWxRR/T7r+CWthu5sl3Y="
    [] secret = "whsec_1" /\ data = JsonStringify(oBad) ->
         "vqCjXjl4AFAHyhY6yk8hDQYqvhb+M0Anyvjy7p2pdIg="
    [] secret = "whsec_1" /\ data = JsonStringify(oNoName) ->
         "YP5Nhy3qFl6cQ0x6O8aqTrU52P2sEtQsbtA4Svjqddk="
    [] secret = "whsec_1" /\ data = JsonStringify(oMoved) ->
         "zmAE5ikCZ71vOoX4qsNHw7jXEqXnLNA0PShRpBB+Jq4="
    [] secret = "whsec_1" /\ data = SpacedBody ->
         "jWshSHNYh+vMYlpjavGlBWHoIY6TfJCAiA+iX+BQKJM="
    [] secret = "whsec_1" /\ data = OtherBody ->
         "3w0Vtkb6jolz5uoFVwzZ8M2PY4JaisWWpI7F3IColJE="
    [] secret = "whsec_default" /\ data = JsonStringify(cFull) ->
         "IgniXIYdScMbQQ1RQhYtlVR96kvocJ4xlfq41IBo1lU="
    [] secret = "whsec_default" /\ data = JsonStringify(cBare) ->
         "WijexLkU69Nou6mH+UQwjj9LW6L9igMrozk93O5JrTM="
    [] secret = "whsec_default" /\ data = JsonStringify(cBad) ->
         "CJKcfwyVam9qapdzj4kmBxr6X3z6Nsg3R929rO64yo8="
    [] secret = "whsec_default" /\ data = JsonStringify(cNoName) ->
         "MRKqk1AYSiAeili3dKrgsyVrplM8AT1MeEKyEkN5/9A="
    [] secret = "whsec_default" /\ data = JsonStringify(pFull) ->
         "SkzEzWVcbrAlXd3U1Ovxf/R5rs8ujIgxa/mytk+x+zg="
    [] secret = "whsec_default" /\ data = JsonStringify(pBare) ->
         "JrV1kF/dtZndLIzLI+TpNJzurP5RQ8BlXMYjEYYC7Ww="
    [] secret = "whsec_default" /\ data = JsonStringify(pBad) ->
         "xGXuQ9pbUXOmM7zHDiXSrT0L73Rm4eUSmez40VgQCnU="
    [] secret = "whsec_default" /\ data = JsonStringify(oFull) ->
         "w6aJSKkE02fayeSPrEdlx5uA4kWo+EVmo97pLBz+47c="
    [] secret = "whsec_default" /\ data = JsonStringify(oBare) ->
         "R0orO+vyZNbR4spPkAOGxkB686gRdSfYNgTgTafL7jM="
    [] secret = "whsec_default" /\ data = JsonStringify(oBad) ->
         "edkjtQGMxUf2mm+U0KID+YW5KDJwiv5Q/XXC9nM8GmM="
    [] secret = "whsec_default" /\ data = JsonStringify(oNoName) ->
         "oHfKP+j7cq7esaM4rhgKnIg3IguPkY2fjVEm7zbF+WQ="
    [] secret = "whsec_default" /\ data = JsonStringify(oMoved) ->
         "a7dEFg4aKuBCLcgwfDNM1mwnVnq2vfn6mDi3wyHi0kc="
    [] secret = "whsec_default" /\ data = SpacedBody ->
         "YZHQphxuRdnyCg4qEccvr6Vb62AbbpTfSe6YPHmO1y8="
    [] secret = "whsec_default" /\ data = OtherBody ->
         "y100II5IV1yh642mfOmbR5VuB3PZkUpPgSlenAu6sFI="
    [] secret = "whsec_x" /\ data = JsonStringify(cFull) ->
         "SEXXRfcZTqCbRQKkf6ixapKQbsaSMbfnE41gUo3PA5U="
    [] secret = "whsec_x" /\ data = JsonStringify(cBare) ->
         "GqVYII+7IS0IOjrOjK86yur/8RHWLHbG7GlJLYDZfk0="
    [] secret = "whsec_x" /\ data = JsonStringify(cBad) ->
         "CFRJZseVXOq1JDB5OkjGs81ufLOK31d2C1bMD7yoBIk="
    [] secret = "whsec_x" /\ data = JsonStringify(cNoName) ->
         "dsF62/667cdxA7yXrXE+m/dE4EjuE1P+ML9orLowC+0="
    [] secret = "whsec_x" /\ data = JsonStringify(pFull) ->
         "6XKTtPwMxHd2lrIjwVS5vcFbtYriOK3pIUExSBpgVjM="
    [] secret = "whsec_x" /\ data = JsonStringify(pBare) ->
         "4II68kimo23IXJ2jTQChOfIDpzcPHBlu96H08xomMfw="
    [] secret = "whsec_x" /\ data = JsonStringify(pBad) ->
         "RfzjoRWZYL8RUoZ+3/dozq9IeID+eSZuESGgdGw4TLY="
    [] secret = "whsec_x" /\ data = JsonStringify(oFull) ->
         "LUffKxDlpok4p4DPs8g4+WPpPt2iNL77Xx97lRlJyyI="
    [] secret = "whsec_x" /\ data = JsonStringify(oBare) ->
         "L7SCWgeKiszHlmMPhv30QqLSLPOkIHBkJ2XhjgNsYpg="
    [] secret = "whsec_x" /\ data = JsonStringify(oBad) ->
         "C0S67omHAD5bRU82r7l8iCuyffkS62hfgJ0B6USEZVs="
    [] secret = "whsec_x" /\ data = JsonStringify(oNoName) ->
         "Twu+WqOidMiUlSmk4C2nAjsRZ0y3ZOvl4CNvoOxWkWY="
    [] secret = "whsec_x" /\ data = JsonStringify(oMoved) ->
         "eaOrXoaE9aMwYnoRcqWoCZg+lLhrkJIUAx+qXEXuo1s="
    [] secret = "whsec_x" /\ data = SpacedBody ->
         "QaapBPr8cbbMoFLQkQYvRs3r3gOe6tJ9L9y/q5ObNlo="
    [] secret = "whsec_x" /\ data = OtherBody ->
         "op6TDea0uHmew/veBLQmgq/5EX8S4OFSeImX7G13Yco="

\* What verifyHmac is handed as rawBody: a Buffer, a string, a parsed object,
\* undefined, or an object JSON.stringify throws on.
Buf(text) == [kind |-> "buffer", text |-> text]
Str(text) == [kind |-> "string", text |-> text]
Obj(x) == [kind |-> "object", value |-> x]
Undefined == [kind |-> "undefined"]
Cyclic == [kind |-> "cyclic"]

\* dataBuf: the bytes that are signed, or none when the normalisation throws
\* (JSON.stringify on a cycle, Buffer.from on JSON.stringify(undefined)).
DataBuf(rawBody) ==
  CASE rawBody.kind = "buffer" -> <<rawBody.text>>
    [] rawBody.kind = "string" -> <<rawBody.text>>
    [] rawBody.kind = "object" -> <<JsonStringify(rawBody.value)>>
    [] OTHER -> <<>>

\* Buffer.from(text).length, the texts being ASCII.
ByteLength(text) == Len(text)

\* crypto.timingSafeEqual throws on buffers of different length.
TimingSafeEqualThrows(a, b) == ByteLength(a) # ByteLength(b)

\* Any buffer of the same length is taken for equal.
TimingSafeEqual_LengthOnly(a, b) == TRUE

TimingSafeEqual(a, b) == a = b

\* Only the presence of the header is looked at.
VerifyHmac_HeaderPresent(rawBody, hmacHeader, secret) == Truthy(hmacHeader)

VerifyHmac(rawBody, hmacHeader, secret) ==
  IF ~Truthy(hmacHeader) THEN FALSE
  ELSE LET dataBuf == DataBuf(rawBody)
       IN IF dataBuf = <<>> THEN FALSE
          ELSE LET computed == HmacSha256Base64(secret, dataBuf[1])
               IN IF TimingSafeEqualThrows(computed, hmacHeader) THEN FALSE
                  ELSE TimingSafeEqual(computed, hmacHeader)

\* Inputs of the calls checked one by one: bodies, and headers that are a
\* digest, a digest with its last character changed, a prefix of one, or empty.
HmacBodies == {JsonStringify(pBare), SpacedBody, OtherBody, JsonStringify(cFull)}

HmacRawBodies ==
  {Buf(b) : b \in HmacBodies} \cup {Str(b) : b \in HmacBodies}
    \cup {Obj(pBare), Obj(cFull), Undefined, Cyclic}

TamperedHeader == "lz9tNA4Nc6scJp+glijukbaWA+uNKgxpi9s18QuMVRd="

ShortHeader == "lz9tNA4Nc6scJp+glijukbaWA+uNKgxpi9s18QuMVR"

HmacHeaders ==
  {"", TamperedHeader, ShortHeader}
    \cup {HmacSha256Base64(k, b) : k \in Secrets, b \in HmacBodies}

NoAuth == [state |-> "off"]

\* One call of verifyHmac.
VH_Verify ==
  /\ auth.state = "called"
  /\ auth' = [auth EXCEPT !.state = "returned",
                          !.result = <<VerifyHmac(auth.rawBody, auth.hmacHeader, auth.secret)>>]
  /\ UNCHANGED <<tenants, remote, customers, products, orders, proc, pull, cron>>

----------------------------------------------------------------------------
(* processWebhookPayload(topic, shop, payload) *)

\* A topic is its "/"-separated segments: "orders/create" is <<"orders", "create">>.
Topics == { <<"orders", "create">>, <<"customers", "create">>, <<"customers", "update">>,
            <<"products", "update">>, <<"customers", "delete">> }

\* topic.startsWith("orders/")
StartsWithOrders(topic) == Len(topic) >= 2 /\ topic[1] = "orders"

\* Every customers/ topic is taken for an upsert.
IsCustomerTopic_AnyCustomers(topic) == Len(topic) >= 2 /\ topic[1] = "customers"

IsCustomerTopic(topic) == topic \in {<<"customers", "create">>, <<"customers", "update">>}
IsProductTopic(topic) == topic \in {<<"products", "create">>, <<"products", "update">>}

\* The branch of the dispatcher a topic selects.
Branch(topic) ==
  IF StartsWithOrders(topic) THEN "orders"
  ELSE IF IsCustomerTopic(topic) THEN "customers"
  ELSE IF IsProductTopic(topic) THEN "products"
  ELSE "other"

\* The payload a shop sends with a topic: one of its records of that kind.
Payloads(shop, topic) ==
  CASE topic[1] = "orders" -> RemoteData(shop).orders
    [] topic[1] = "customers" -> RemoteData(shop).customers
    [] OTHER -> RemoteData(shop).products

\* Shop domains of the X-Shopify-Shop-Domain header; the last has no tenant.
ShopInputs == {"one.myshopify.com", "two.myshopify.com", "none.myshopify.com"}

\* What the remote holds for a shop domain.
RemoteOf(shop) == IF shop \in Shops THEN shop ELSE "zero.myshopify.com"

\* Whether the client has an Event model (the schema has none).
HasEventModel == FALSE

Payload(p) == proc[p].hook[1].payload

\* The order is upserted at once, its embedded customer never.
OrdersEntry_OrderOnly(payload) == "wh_order"

\* orders/: if (payload.customer?.id) the customer upsert comes first.
OrdersEntry(payload) == IF HasCustomerId(payload) THEN "wh_order_customer" ELSE "wh_order"

\* processWebhookPayload up to its first upsert: the tenant lookup (outside the
\* try: its error leaves the function) and the branch the topic selects.
Dispatch(l, dbOk) ==
  LET req == l.hook[1]
      found == FindTenantByShop(req.shop)
      t == CHOOSE x \in found : TRUE
      b == Branch(req.topic)
  IN IF ~dbOk THEN Finish(l, <<"error", "processWebhookPayload", "tenant lookup failed">>)
     ELSE IF found = {} THEN Finish(l, <<"ok">>)
     ELSE IF b = "orders"
          THEN [l EXCEPT !.tenantId = t.id, !.pc = OrdersEntry(req.payload)]
     ELSE IF b = "customers" THEN [l EXCEPT !.tenantId = t.id, !.pc = "wh_customer"]
     ELSE IF b = "products" THEN [l EXCEPT !.tenantId = t.id, !.pc = "wh_product"]
     ELSE Finish([l EXCEPT !.tenantId = t.id], <<"ok">>)

\* processWebhookPayload(topic, shop, payload), called for a delivery that
\* passed the handler's checks and whose tenant lookup answers; a lookup that
\* throws is followed through the handler, which has to answer it (WH_Dispatch).
\* The topics delivered directly to the dispatcher; over the "moved" data also
\* the deletion of an order.
DeliveredTopics ==
  IF remote = "moved" THEN Topics \cup {<<"orders", "delete">>} ELSE Topics

Deliver(p, shops, topics) ==
  /\ p \in HookProcs
  /\ proc[p].pc = "idle"
  /\ \E topic \in topics, shop \in shops :
     \E payload \in Payloads(RemoteOf(shop), topic) :
       LET l == [IdleProc EXCEPT !.op = "webhook",
                                 !.hook = <<[topic |-> topic, shop |-> shop, payload |-> payload]>>]
       IN proc' = [proc EXCEPT ![p] = Dispatch(l, TRUE)]
  /\ UNCHANGED <<tenants, remote, customers, products, orders, pull, auth, cron>>

WH_Begin(p) == Deliver(p, ShopInputs, DeliveredTopics)

\* process.env.SHOPIFY_WEBHOOK_SECRET || "whsec_default"
DEFAULT_WEBHOOK_SECRET == "whsec_default"

\* tenant?.webhookSecret ?? DEFAULT_WEBHOOK_SECRET
SecretOf(found) ==
  IF found = {} THEN DEFAULT_WEBHOOK_SECRET
  ELSE LET t == CHOOSE x \in found : TRUE
       IN IF t.webhookSecret = NULL THEN DEFAULT_WEBHOOK_SECRET ELSE t.webhookSecret

\* The requests that reach POST /api/webhooks/shopify: any topic, a shop header
\* or none (""), the body text with its raw bytes captured or not, and a
\* signature header that is empty, a digest of the body under some secret, or
\* a digest with one character changed.
\* Topics of the X-Shopify-Topic header: those above, and more the dispatcher
\* has no branch for ("orders" is not prefixed "orders/").
HandlerTopics ==
  Topics \cup {<<"orders">>, <<"products", "delete">>, <<"orders", "paid">>}

WebhookRequests ==
  UNION {
    { [topic |-> topic, shop |-> shop, payload |-> payload, raw |-> raw, hmac |-> hmac] :
        raw \in {<<>>, <<JsonStringify(payload)>>},
        hmac \in {"", TamperedHeader}
                   \cup {HmacSha256Base64(k, JsonStringify(payload)) : k \in Secrets} } :
    topic \in HandlerTopics, shop \in ShopInputs \cup {""},
    payload \in UNION {Payloads(RemoteOf(s), t) : s \in ShopInputs, t \in HandlerTopics} }

\* The handler up to the call of processWebhookPayload: the header and raw-body
\* checks, the tenant's secret, verifyHmac. A throw is answered 500.
WH_Handler(p) ==
  /\ p \in HookProcs
  /\ proc[p].pc = "idle"
  /\ \E req \in WebhookRequests, dbOk \in BOOLEAN :
       /\ req.payload \in Payloads(RemoteOf(req.shop), req.topic)
       /\ LET l == [IdleProc EXCEPT !.op = "webhook", !.hook = <<req>>]
              secret == SecretOf(FindTenantByShop(req.shop))
          IN proc' = [proc EXCEPT ![p] =
               IF ~Truthy(req.shop)
               THEN Finish(l, <<"rejected", "400", "missing shop header">>)
               ELSE IF req.raw = <<>>
                    THEN Finish(l, <<"rejected", "400", "missing raw body">>)
               ELSE IF ~dbOk THEN Finish(l, <<"error", "handler", "tenant lookup failed">>)
               ELSE IF ~VerifyHmac(Buf(req.raw[1]), req.hmac, secret)
                    THEN Finish(l, <<"rejected", "401", "invalid hmac">>)
               ELSE [l EXCEPT !.pc = "wh_dispatch"]]
  /\ UNCHANGED <<tenants, remote, customers, products, orders, pull, auth, cron>>

\* await processWebhookPayload(topic, shop, payload), from the handler.
WH_Dispatch(p) ==
  /\ proc[p].op = "webhook"
  /\ proc[p].pc = "wh_dispatch"
  /\ \E dbOk \in BOOLEAN : proc' = [proc EXCEPT ![p] = Dispatch(proc[p], dbOk)]
  /\ UNCHANGED <<tenants, remote, customers, products, orders, pull, auth, cron>>

\* The status the handler answers with: 200 when the dispatcher returned, the
\* rejection's status, 500 when something threw.
WebhookStatus(result) ==
  CASE result[1] = "ok" -> "200"
    [] result[1] = "rejected" -> result[2]
    [] OTHER -> "500"

\* orders/: the embedded customer is upserted first; cust.id is kept.
WH_OrderCustomer(p) ==
  /\ proc[p].op = "webhook"
  /\ proc[p].pc = "wh_order_customer"
  /\ \E dbOk \in BOOLEAN :
       LET c == Payload(p).customer[1]
           ok == dbOk /\ ~WhCustomerRefused(customers, Tenant(p), c)
           after == WhUpsertCustomer(customers, Tenant(p), c)
       IN /\ customers' = IF ok THEN after ELSE customers
          /\ \E id \in FindCustomerIds(after, Tenant(p), String(c.id)) :
               proc' = [proc EXCEPT ![p] =
                 IF ok THEN [@ EXCEPT !.found = id, !.pc = "wh_order"]
                 ELSE Finish(@, <<"ok">>)]
  /\ UNCHANGED <<tenants, remote, products, orders, pull, auth, cron>>

WH_Order(p) ==
  /\ proc[p].op = "webhook"
  /\ proc[p].pc = "wh_order"
  /\ \E dbOk \in BOOLEAN :
       LET o == Payload(p)
           customerId == proc[p].found
           ok == dbOk /\ ~WhOrderRefused(orders, Tenant(p), o, customerId)
       IN /\ orders' = IF ok THEN WhUpsertOrder(orders, Tenant(p), o, customerId) ELSE orders
          /\ proc' = [proc EXCEPT ![p] = Finish(@, <<"ok">>)]
  /\ UNCHANGED <<tenants, remote, customers, products, pull, auth, cron>>

WH_Customer(p) ==
  /\ proc[p].op = "webhook"
  /\ proc[p].pc = "wh_customer"
  /\ \E dbOk \in BOOLEAN :
       LET c == Payload(p)
           ok == dbOk /\ ~WhCustomerRefused(customers, Tenant(p), c)
       IN /\ customers' = IF ok THEN WhUpsertCustomer(customers, Tenant(p), c) ELSE customers
          /\ proc' = [proc EXCEPT ![p] = Finish(@, <<"ok">>)]
  /\ UNCHANGED <<tenants, remote, products, orders, pull, auth, cron>>

WH_Product(p) ==
  /\ proc[p].op = "webhook"
  /\ proc[p].pc = "wh_product"
  /\ \E dbOk \in BOOLEAN :
       LET x == Payload(p)
           ok == dbOk /\ ~WhProductRefused(products, Tenant(p), x)
       IN /\ products' = IF ok THEN WhUpsertProduct(products, Tenant(p), x) ELSE products
          /\ proc' = [proc EXCEPT ![p] = Finish(@, <<"ok">>)]
  /\ UNCHANGED <<tenants, remote, customers, orders, pull, auth, cron>>

\* The caller has its answer; the slot is free for the next request.
Reset(p) ==
  /\ proc[p].pc = "done"
  /\ proc' = [proc EXCEPT ![p] = IdleProc]
  /\ UNCHANGED <<tenants, remote, customers, products, orders, pull, auth, cron>>

----------------------------------------------------------------------------
(* shopify.ts: the paginated collection pull *)

\* Longest run of pages a mock server holds.
MaxPages == 3

\* limit: 250
PageSize == 250

\* res.ok
ResOk(status) == status >= 200 /\ status <= 299

\* The continuation token that leads to page k.
Cursor(k) == <<"cur1", "cur2", "cur3", "cur4", "cur5">>[k]

\* One entry of a Link header, <url?limit=250&page_info=tok>; rel="...": its
\* query parameters in order, and its relation.
LinkEntry(rel, tok) ==
  [params |-> <<<<"limit", String(PageSize)>>, <<"page_info", tok>>>>, rel |-> rel]

\* The Link header of page k of n, as the remote writes it: a previous entry
\* from page 2 on, a next entry on every page but the last. <<>> is no header.
LinkHeader(k, n, shape) ==
  LET prev == IF k > 1 THEN <<LinkEntry("previous", Cursor(k - 1))>> ELSE <<>>
      next == IF k < n THEN <<LinkEntry("next", Cursor(k + 1))>> ELSE <<>>
  IN IF shape = "nextFirst" THEN next \o prev ELSE prev \o next

\* The records page k carries: j of them, numbered by page.
PageItems(k, j) == [i \in 1..j |-> 10 * k + i]

\* A response: status, JSON body (a function of its keys) and Link header.
Response(status, body, link) == [status |-> status, body |-> body, link |-> link]

\* The mock servers: n pages; page k has a status, 0..2 records under the root
\* key (or no such key at all), and its Link header.
PageKinds == {[status |-> st, fill |-> f] : st \in {200, 429, 500}, f \in {"nokey", "one", "two"}}

ServerOf(rootKey, kinds, shape) ==
  [k \in 1..Len(kinds) |->
     Response(kinds[k].status,
              IF kinds[k].fill = "nokey" THEN ("errors" :> <<>>)
              ELSE (rootKey :> PageItems(k, IF kinds[k].fill = "one" THEN 1 ELSE 2)),
              LinkHeader(k, Len(kinds), shape))]

\* extractNextPageInfo: the regex takes the first <...>; rel="next" entry whose
\* url has a non-empty page_info parameter, and of that entry the last such
\* parameter. NONE is undefined.
HasPageInfo(e) == \E i \in 1..Len(e.params) : e.params[i][1] = "page_info" /\ e.params[i][2] # ""

LastPageInfo(e) ==
  LET is == {i \in 1..Len(e.params) : e.params[i][1] = "page_info" /\ e.params[i][2] # ""}
      last == CHOOSE i \in is : \A j \in is : j <= i
  IN e.params[last][2]

\* The first entry with a page_info, whatever its relation.
ExtractNextPageInfo_AnyRel(link) ==
  LET ms == {i \in 1..Len(link) : HasPageInfo(link[i])}
  IN IF link = <<>> \/ ms = {} THEN NONE
     ELSE LastPageInfo(link[CHOOSE i \in ms : \A j \in ms : i <= j])

ExtractNextPageInfo(link) ==
  LET ms == {i \in 1..Len(link) : link[i].rel = "next" /\ HasPageInfo(link[i])}
  IN IF link = <<>> \/ ms = {} THEN NONE
     ELSE LastPageInfo(link[CHOOSE i \in ms : \A j \in ms : i <= j])

\* Past the first page only limit and page_info are sent.
Query_TokenOnly(extraQuery, pageInfo) ==
  IF pageInfo = NONE THEN ("limit" :> String(PageSize)) @@ extraQuery
  ELSE ("limit" :> String(PageSize)) @@ ("page_info" :> pageInfo)

\* { limit: 250, ...extraQuery } plus page_info once there is one; every value
\* goes through String() into the url.
Query(extraQuery, pageInfo) ==
  ("limit" :> String(PageSize)) @@ extraQuery @@ Opt("page_info", pageInfo # NONE, pageInfo)

\* fetchAllProducts / fetchAllCustomers / fetchAllOrders: path, rootKey, extraQuery
Collections ==
  { [path |-> "products", rootKey |-> "products", extraQuery |-> NoFields],
    [path |-> "customers", rootKey |-> "customers", extraQuery |-> NoFields],
    [path |-> "orders", rootKey |-> "orders", extraQuery |-> ("status" :> "any")] }

\* The page the mock server answers a query with.
PageIndex(query) ==
  IF "page_info" \in DOMAIN query
  THEN CHOOSE k \in 1..5 : Cursor(k) = query["page_info"]
  ELSE 1

\* The status is not looked at.
ShopifyFetchThrows_Never(res) == FALSE

\* shopifyFetch: throws on a non-success status, else hands back body and headers.
ShopifyFetchThrows(res) == ~ResOk(res.status)

\* body[rootKey] ?? []
BodyItems(body, rootKey) == IF rootKey \in DOMAIN body THEN body[rootKey] ELSE <<>>

NoPull == [state |-> "off"]

\* The top of the while (true) loop up to `await fetch(url, ...)`: the query
\* is built from pageInfo and the request is sent.
Request(l) ==
  [l EXCEPT !.state = "fetching",
            !.requests = Append(@, Query(l.coll.extraQuery, l.pageInfo))]

\* paginateAll is called: all = [], pageInfo = undefined, and the call runs
\* up to the fetch of the first page.
StartPull(server, coll) ==
  Request([state |-> "called", server |-> server, coll |-> coll, pageInfo |-> NONE,
           all |-> <<>>, requests |-> <<>>, served |-> <<>>, returned |-> <<>>,
           error |-> <<>>])

\* The response the pull is reading.
Served(l) == l.server[l.served[Len(l.served)]]

\* `await fetch(url, ...)` resolves: shopifyFetch has status and headers and
\* waits for the body, res.text() when !res.ok, res.json() else.
PG_Response ==
  /\ pull.state = "fetching"
  /\ pull' = [pull EXCEPT !.state = "reading",
                          !.served = Append(@, PageIndex(pull.requests[Len(pull.requests)]))]
  /\ UNCHANGED <<tenants, remote, customers, products, orders, proc, auth, cron>>

\* The body arrives: shopifyFetch throws or returns, and the turn of the loop
\* ends with the list returned or with the request of the next page.
PG_Page ==
  /\ pull.state = "reading"
  /\ LET res == Served(pull)
         all == pull.all \o BodyItems(res.body, pull.coll.rootKey)
         next == ExtractNextPageInfo(res.link)
     IN pull' =
          IF ShopifyFetchThrows(res)
          THEN [pull EXCEPT !.state = "thrown",
                            !.error = ShopifyError(pull.coll.path, res.status)]
          ELSE IF next = NONE
               THEN [pull EXCEPT !.state = "returned", !.all = all, !.returned = <<all>>]
               ELSE Request([pull EXCEPT !.all = all, !.pageInfo = next])
  /\ UNCHANGED <<tenants, remote, customers, products, orders, proc, auth, cron>>

----------------------------------------------------------------------------
(* POST /api/tenants/onboard *)

\* process.env.ADMIN_API_KEY || "supersecret123"
ADMIN_API_KEY == "supersecret123"

\* The requests that reach the route: the x-api-key header, and the body's
\* shop, accessToken and webhookSecret (ABSENT when the body has none). The
\* shop has no Tenant row until its first request is accepted; a later
\* request for it rewrites the row.
OnboardRequests ==
  [apiKey : {ADMIN_API_KEY, "guess"},
   shop : {ABSENT, NewShop},
   accessToken : {ABSENT, "shpat_9"},
   webhookSecret : {ABSENT, "whsec_x"}]

\* The primary key the store gives a new Tenant row.
NewTenantId(rows) == <<"t1", "t2", "t3", "t4", "t5">>[Cardinality(rows) + 1]

\* prisma.tenant.upsert({ where: { shop }, update: { accessToken, webhookSecret },
\* create: { shop, accessToken, webhookSecret } }): the Tenant rows afterwards.
TenantUpsert(rows, shop, accessToken, webhookSecret) ==
  LET hit == {t \in rows : t.shop = shop}
      update == ("accessToken" :> accessToken)
                  @@ Opt("webhookSecret", webhookSecret # ABSENT, webhookSecret)
      create == ("shop" :> shop) @@ update
  IN IF hit # {}
     THEN (rows \ hit) \cup {ApplyData(t, update) : t \in hit}
     ELSE rows \cup {NewRow({"id", "shop", "accessToken", "webhookSecret"},
                            NewTenantId(rows), create)}

\* The route: 403 for another api key, 400 without shop or accessToken, the
\* upsert inside the route's try (500 when it rejects), then the row as json.
\* No ngrokUrl is passed, so no webhook is registered.
Onboard(p) ==
  /\ proc[p].pc = "idle"
  /\ \E req \in OnboardRequests, dbOk \in BOOLEAN :
       LET l == [IdleProc EXCEPT !.op = "onboard"]
           result == IF req.apiKey # ADMIN_API_KEY THEN <<"rejected", "403">>
                     ELSE IF ~Truthy(req.shop) \/ ~Truthy(req.accessToken)
                          THEN <<"rejected", "400">>
                     ELSE IF ~dbOk THEN <<"error", "internal">>
                     ELSE <<"ok">>
       IN /\ tenants' = IF result = <<"ok">>
                         THEN TenantUpsert(tenants, req.shop, req.accessToken,
                                           req.webhookSecret)
                         ELSE tenants
          /\ proc' = [proc EXCEPT ![p] = Finish(l, result)]
  /\ UNCHANGED <<remote, customers, products, orders, pull, auth, cron>>

----------------------------------------------------------------------------
(* The periodic trigger: cron.schedule(CRON_SCHEDULE, async () => ...) *)

NoCron == [state |-> "off", list |-> <<>>, todo |-> <<>>, log |-> <<>>]

\* The process the trigger's passes run on.
CronProc == "p1"

\* A failed pass ends the tick.
AfterSync_Rethrow(c, result) ==
  IF result[1] = "error"
  THEN [c EXCEPT !.todo = <<>>, !.log = Append(@, <<Head(c.todo), "failed">>), !.state = "done"]
  ELSE [c EXCEPT !.todo = Tail(@), !.log = Append(@, <<Head(c.todo), "synced">>),
                 !.state = IF Tail(c.todo) = <<>> THEN "done" ELSE "run"]

\* try { await fullSync(t.id); console.log(...) } catch (e) { console.error(...) }:
\* either way the loop goes on with the next tenant.
AfterSync(c, result) ==
  [c EXCEPT !.todo = Tail(@),
            !.log = Append(@, <<Head(c.todo), IF result[1] = "error" THEN "failed" ELSE "synced">>),
            !.state = IF Tail(c.todo) = <<>> THEN "done" ELSE "run"]

\* The tick starts: prisma.tenant.findMany, outside any try; the store returns
\* the tenants in some order, or fails and the callback is over.
Cron_Tick ==
  /\ cron.state \in {"off", "done", "failed"}
  /\ proc[CronProc].pc = "idle"
  /\ \E dbOk \in BOOLEAN :
     \E q \in Orderings({t.id : t \in tenants}) :
       cron' = IF ~dbOk THEN [NoCron EXCEPT !.state = "failed"]
               ELSE [state |-> IF q = <<>> THEN "done" ELSE "run", list |-> q, todo |-> q,
                     log |-> <<>>]
  /\ UNCHANGED <<tenants, remote, customers, products, orders, proc, pull, auth>>

\* await fullSync(t.id) for the tenant at the head of the list.
Cron_Invoke ==
  /\ cron.state = "run"
  /\ proc[CronProc].pc = "idle"
  /\ \E dbOk \in BOOLEAN :
       proc' = [proc EXCEPT ![CronProc] = BeginFullSync(Head(cron.todo), dbOk)]
  /\ cron' = [cron EXCEPT !.state = "await"]
  /\ UNCHANGED <<tenants, remote, customers, products, orders, pull, auth>>

\* fullSync returned or threw: log it and go on.
Cron_Return ==
  /\ cron.state = "await"
  /\ proc[CronProc].pc = "done"
  /\ cron' = AfterSync(cron, proc[CronProc].result)
  /\ proc' = [proc EXCEPT ![CronProc] = IdleProc]
  /\ UNCHANGED <<tenants, remote, customers, products, orders, pull, auth>>

----------------------------------------------------------------------------
(* The mirror: requests and passes interleaved at their awaits *)

InitStore ==
  /\ tenants = TenantRows
  /\ customers = {}
  /\ products = {}
  /\ orders = {}
  /\ proc = [p \in Procs |-> IdleProc]
  /\ pull = NoPull
  /\ auth = NoAuth
  /\ cron = NoCron

Step(p) ==
  \/ FS_Begin(p)
  \/ FS_FetchProducts(p)
  \/ FS_PullProducts(p)
  \/ FS_Product(p)
  \/ FS_FetchCustomers(p)
  \/ FS_PullCustomers(p)
  \/ FS_Customer(p)
  \/ FS_CustFind(p)
  \/ FS_CustWrite(p)
  \/ FS_FetchOrders(p)
  \/ FS_PullOrders(p)
  \/ FS_OrderFind(p)
  \/ FS_Order(p)
  \/ FS_BackfillSelect(p)
  \/ FS_Backfill(p)
  \/ SC_Begin(p)
  \/ SC_Fetch(p)
  \/ SC_Pull(p)
  \/ SC_Customer(p)
  \/ SC_Respond(p)
  \/ WH_Begin(p)
  \/ WH_OrderCustomer(p)
  \/ WH_Order(p)
  \/ WH_Customer(p)
  \/ WH_Product(p)
  \/ Reset(p)

\* Requests and passes interleaved at their awaits.
Init == InitStore /\ remote = "plain"

Next == \E p \in Procs : Step(p)

Spec == Init /\ [][Next]_vars

\* One request or pass at a time, over the remote data with sparse and refused
\* records.
InitRich == InitStore /\ remote = "rich"

NextRich == \E p \in Procs : (\A q \in Procs \ {p} : proc[q].pc = "idle") /\ Step(p)

SpecRich == InitRich /\ [][NextRich]_vars

\* One request or pass at a time, over the remote data whose orders changed
\* their customer.
InitMoved == InitStore /\ remote = "moved"

SpecMoved == InitMoved /\ [][NextRich]_vars

\* Webhook deliveries alone, through the handler: requests of every kind, one
\* at a time, over the remote data with sparse and refused records.
HookStep(p) ==
  \/ WH_Handler(p)
  \/ WH_Dispatch(p)
  \/ WH_OrderCustomer(p)
  \/ WH_Order(p)
  \/ WH_Customer(p)
  \/ WH_Product(p)
  \/ Reset(p)

InitHook == InitStore /\ remote = "rich"

NextHook == \E p \in HookProcs : HookStep(p)

SpecHook == InitHook /\ [][NextHook]_vars

\* The periodic trigger alone: tick after tick, each pass on the one process.
CronStep(p) ==
  \/ FS_FetchProducts(p)
  \/ FS_PullProducts(p)
  \/ FS_Product(p)
  \/ FS_FetchCustomers(p)
  \/ FS_PullCustomers(p)
  \/ FS_Customer(p)
  \/ FS_CustFind(p)
  \/ FS_CustWrite(p)
  \/ FS_FetchOrders(p)
  \/ FS_PullOrders(p)
  \/ FS_OrderFind(p)
  \/ FS_Order(p)
  \/ FS_BackfillSelect(p)
  \/ FS_Backfill(p)

InitCron == InitStore /\ remote = "plain"

NextCron == Cron_Tick \/ Cron_Invoke \/ CronStep(CronProc) \/ Cron_Return

SpecCron == InitCron /\ [][NextCron]_vars

\* Tenants are onboarded while passes run: the first process runs fullSync
\* for any tenant id, among them the id the onboarded shop's row gets, and the
\* second serves the onboarding requests, interleaved at every await.
OnboardProc == "p2"

Onboard_Begin(p) ==
  /\ p \in SyncProcs
  /\ proc[p].pc = "idle"
  /\ \E tid \in TenantIdInputs \cup {NewTenantId(TenantRows)}, dbOk \in BOOLEAN :
       proc' = [proc EXCEPT ![p] = BeginFullSync(tid, dbOk)]
  /\ UNCHANGED <<tenants, remote, customers, products, orders, pull, auth, cron>>

InitOnboard == InitStore /\ remote = "plain"

NextOnboard ==
  \/ \E p \in SyncProcs : Onboard_Begin(p) \/ CronStep(p) \/ Reset(p)
  \/ Onboard(OnboardProc)
  \/ Reset(OnboardProc)

SpecOnboard == InitOnboard /\ [][NextOnboard]_vars

\* Two requests for the same tenant at once: each process runs fullSync for
\* the second tenant, whose customer lacks a first name so that the backfill
\* pass has a row to visit; the second process may instead dispatch a webhook.
RaceTenant == "t2"

\* POST /api/:tenantId/sync (or the periodic trigger) while another pass or a
\* dispatch for the tenant is in flight.
Race_Begin(p) ==
  /\ proc[p].pc = "idle"
  /\ \E dbOk \in BOOLEAN : proc' = [proc EXCEPT ![p] = BeginFullSync(RaceTenant, dbOk)]
  /\ UNCHANGED <<tenants, remote, customers, products, orders, pull, auth, cron>>

\* A webhook of the tenant's shop arrives meanwhile, of a topic of each branch.
Race_Deliver(p) ==
  Deliver(p, {"two.myshopify.com"},
          {<<"orders", "create">>, <<"customers", "update">>, <<"products", "update">>})

\* The connection of a dispatched webhook is free again; a pass that returned
\* is not followed by another.
Race_Reset(p) == proc[p].op = "webhook" /\ Reset(p)

RaceStep(p) ==
  \/ Race_Begin(p)
  \/ CronStep(p)
  \/ Race_Deliver(p)
  \/ WH_OrderCustomer(p)
  \/ WH_Order(p)
  \/ WH_Customer(p)
  \/ WH_Product(p)
  \/ Race_Reset(p)

InitRace == InitStore /\ remote = "plain"

NextRace == \E p \in Procs : RaceStep(p)

SpecRace == InitRace /\ [][NextRace]_vars

----------------------------------------------------------------------------
\* Passes for the first tenant, one after another, over a shop with two remote
\* ids of each kind and records the store refuses.
BatchTenant == "t1"

\* POST /api/:tenantId/sync for the first tenant.
Batch_Begin(p) ==
  /\ p \in SyncProcs
  /\ proc[p].pc = "idle"
  /\ \E dbOk \in BOOLEAN : proc' = [proc EXCEPT ![p] = BeginFullSync(BatchTenant, dbOk)]
  /\ UNCHANGED <<tenants, remote, customers, products, orders, pull, auth, cron>>

InitBatch == InitStore /\ remote = "batch"

NextBatch == \E p \in SyncProcs : Batch_Begin(p) \/ CronStep(p) \/ Reset(p)

SpecBatch == InitBatch /\ [][NextBatch]_vars

----------------------------------------------------------------------------
\* The first shop whose data changes once and then stays: passes for its
\* tenant and webhooks of the shop, one at a time, before and after.

\* A webhook of the first shop, of a topic of each branch; a delivery that was
\* under way when the data changed still carries an earlier version.
Still_Deliver(p) ==
  Deliver(p, {"one.myshopify.com"},
          {<<"orders", "create">>, <<"customers", "update">>, <<"products", "update">>})

\* The remote data changes for the last time, while nothing is in flight.
Settle ==
  /\ remote = "early"
  /\ \A p \in Procs : proc[p].pc = "idle"
  /\ remote' = "still"
  /\ UNCHANGED <<tenants, customers, products, orders, proc, pull, auth, cron>>

StillStep(p) ==
  \/ Batch_Begin(p)
  \/ CronStep(p)
  \/ Still_Deliver(p)
  \/ WH_OrderCustomer(p)
  \/ WH_Order(p)
  \/ WH_Customer(p)
  \/ WH_Product(p)
  \/ Reset(p)

InitStill == InitStore /\ remote = "early"

NextStill ==
  \/ \E p \in Procs : (\A q \in Procs \ {p} : proc[q].pc = "idle") /\ StillStep(p)
  \/ Settle

SpecStill == InitStill /\ [][NextStill]_vars

----------------------------------------------------------------------------
\* The backfill selection over a large customers table: a pass whose pulls
\* listed nothing reaches the selection with the rows earlier passes created.

\* The i-th remote customer of a large shop: without email, without first
\* name, or without both, in turn.
BulkCustomer(i) ==
  [cFull EXCEPT !.id = i,
                !.email = IF i % 3 = 1 THEN "a@x.io" ELSE ABSENT,
                !.first_name = IF i % 3 = 0 THEN "Ann" ELSE ABSENT]

\* A remote customer with email and first name, every other one without a
\* last name.
FullCustomer(i) == [cFull EXCEPT !.id = i, !.last_name = IF i % 2 = 0 THEN "Lee" ELSE ABSENT]

\* The rows fullSync created for the remote customers from..to of a tenant,
\* which lack a field or (full) do not.
BulkRows(tenantId, from, to, full) ==
  {NewRow(CustomerColumns, LocalId(tenantId, i),
          FsCustomerCreate(tenantId, IF full THEN FullCustomer(i) ELSE BulkCustomer(i))) :
     i \in from..to}

\* Numbers of rows with a missing field, around the limit of one selection.
BulkSizes == {2, BackfillTake - 1, BackfillTake, BackfillTake + 1}

InitBulk ==
  /\ tenants = TenantRows
  /\ remote = "plain"
  /\ \E n \in BulkSizes :
       customers = BulkRows("t1", 1, n, FALSE)
                     \cup BulkRows("t1", n + 1, n + 2, TRUE)
                     \cup BulkRows("t2", 1, 2, FALSE)
                     \cup BulkRows("t2", 3, 3, TRUE)
  /\ products = {}
  /\ orders = {}
  /\ \E tid \in {"t1", "t2"} :
       proc = [p \in Procs |->
                 IF p \in SyncProcs
                 THEN [IdleProc EXCEPT !.op = "fullSync", !.tenantId = tid,
                                       !.pc = "backfill_select",
                                       !.pulls = <<"products", "customers", "orders">>]
                 ELSE IdleProc]
  /\ pull = NoPull
  /\ auth = NoAuth
  /\ cron = NoCron

NextBulk == \E p \in SyncProcs : FS_BackfillSelect(p)

SpecBulk == InitBulk /\ [][NextBulk]_vars

\* One collection pull against each mock server.
InitPull ==
  /\ tenants = TenantRows
  /\ remote = "plain"
  /\ customers = {}
  /\ products = {}
  /\ orders = {}
  /\ proc = [p \in Procs |-> IdleProc]
  /\ auth = NoAuth
  /\ cron = NoCron
  /\ \E n \in 1..MaxPages, coll \in Collections, shape \in {"prevFirst", "nextFirst"} :
       \E kinds \in [1..n -> PageKinds] :
         pull = StartPull(ServerOf(coll.rootKey, kinds, shape), coll)

NextPull == PG_Response \/ PG_Page

SpecPull == InitPull /\ [][NextPull]_vars

\* One call of verifyHmac on each input.
InitHmac ==
  /\ tenants = TenantRows
  /\ remote = "plain"
  /\ customers = {}
  /\ products = {}
  /\ orders = {}
  /\ proc = [p \in Procs |-> IdleProc]
  /\ pull = NoPull
  /\ cron = NoCron
  /\ \E rawBody \in HmacRawBodies, hmacHeader \in HmacHeaders, secret \in Secrets :
       auth = [state |-> "called", rawBody |-> rawBody, hmacHeader |-> hmacHeader,
               secret |-> secret, result |-> <<>>]

NextHmac == VH_Verify

SpecHmac == InitHmac /\ [][NextHmac]_vars

----------------------------------------------------------------------------
(* One record through one routine, as a function of the store *)

Store == [customers |-> customers, products |-> products, orders |-> orders]

\* fullSync, one product: upsert, or the catch when the store refuses it.
FsApplyProduct(st, tenantId, x) ==
  IF FsProductRefused(st.products, tenantId, x) THEN st
  ELSE [st EXCEPT !.products = FsUpsertProduct(@, tenantId, x)]

\* fullSync, one customer: the upsert; what it refuses the fallback's update or
\* create of the same data is refused too.
FsApplyCustomer(st, tenantId, c) ==
  IF FsCustomerRefused(st.customers, tenantId, c) THEN st
  ELSE [st EXCEPT !.customers = FsUpsertCustomer(@, tenantId, c)]

\* fullSync, one order: customer lookup, then the upsert.
FsApplyOrder(st, tenantId, o) ==
  LET customerId ==
        IF HasCustomerId(o)
        THEN CHOOSE id \in FindCustomerIds(st.customers, tenantId, String(o.customer[1].id)) : TRUE
        ELSE NONE
  IN IF FsOrderRefused(st.orders, tenantId, o, customerId) THEN st
     ELSE [st EXCEPT !.orders = FsUpsertOrder(@, tenantId, o, customerId)]

\* Dispatcher, products/ branch.
WhApplyProduct(st, tenantId, x) ==
  IF WhProductRefused(st.products, tenantId, x) THEN st
  ELSE [st EXCEPT !.products = WhUpsertProduct(@, tenantId, x)]

\* Dispatcher, customers/ branch.
WhApplyCustomer(st, tenantId, c) ==
  IF WhCustomerRefused(st.customers, tenantId, c) THEN st
  ELSE [st EXCEPT !.customers = WhUpsertCustomer(@, tenantId, c)]

\* Dispatcher, orders/ branch: embedded customer first, then the order.
WhApplyOrder(st, tenantId, o) ==
  IF HasCustomerId(o)
  THEN IF WhCustomerRefused(st.customers, tenantId, o.customer[1]) THEN st
       ELSE LET cs == WhUpsertCustomer(st.customers, tenantId, o.customer[1])
                customerId == CHOOSE id \in FindCustomerIds(cs, tenantId,
                                                            String(o.customer[1].id)) : TRUE
                withCustomer == [st EXCEPT !.customers = cs]
            IN IF WhOrderRefused(st.orders, tenantId, o, customerId) THEN withCustomer
               ELSE [withCustomer EXCEPT !.orders = WhUpsertOrder(@, tenantId, o, customerId)]
  ELSE IF WhOrderRefused(st.orders, tenantId, o, NONE) THEN st
       ELSE [st EXCEPT !.orders = WhUpsertOrder(@, tenantId, o, NONE)]

----------------------------------------------------------------------------
(* Properties *)

Busy(p) == proc[p].pc \notin {"idle", "done"}

RowsOf(tbl, tenantId) == {r \in tbl : r.tenantId = tenantId}

UniqueIn(tbl, keyField) ==
  \A r1, r2 \in tbl :
    (r1.tenantId = r2.tenantId /\ r1[keyField] = r2[keyField]) => r1 = r2

\* C1: in every reachable state, whatever the interleaving of fullSync passes,
\* sync-customers requests and webhook dispatches, the Customer, Product and
\* Order tables each hold at most one row per (tenantId, remote id).
C1_UniqueNaturalKeys ==
  /\ UniqueIn(customers, "shopifyCustomerId")
  /\ UniqueIn(products, "shopifyProductId")
  /\ UniqueIn(orders, "shopifyOrderId")

\* The race the index settles: the fallback of a fullSync pass found no row and
\* is about to create one, and meanwhile a webhook has created that row.
C1_Witness ==
  \E p \in SyncProcs :
    /\ proc[p].pc = "cust_write"
    /\ proc[p].found = NONE
    /\ ByKey(customers, "shopifyCustomerId", Tenant(p), String(Head(proc[p].queue).id)) # {}

\* C2: with two tenants holding records of the same remote id, a step of a
\* fullSync pass, a sync-customers request or a webhook dispatch of one tenant
\* leaves every Customer, Product and Order row of every other tenant as it
\* was, and a lookup it made returned a row of its own tenant.
C2_LookupScoped ==
  \A p \in Procs :
    proc[p].found # NONE =>
      \E r \in customers : r.id = proc[p].found /\ r.tenantId = Tenant(p)

C2_StepScoped ==
  \A p \in Procs :
    (Busy(p) /\ proc'[p] # proc[p]) =>
      \A t \in tenants :
        t.id # Tenant(p) =>
          /\ RowsOf(customers', t.id) = RowsOf(customers, t.id)
          /\ RowsOf(products', t.id) = RowsOf(products, t.id)
          /\ RowsOf(orders', t.id) = RowsOf(orders, t.id)

C2_TenantIsolation == [](C2_LookupScoped) /\ [][C2_StepScoped]_vars

\* Both tenants hold customer "100", product "500" and order "900", and a pass
\* of the first tenant is upserting while the second tenant's rows are there.
C2_Witness ==
  /\ \A t \in {"t1", "t2"} :
       /\ ByKey(customers, "shopifyCustomerId", t, "100") # {}
       /\ ByKey(products, "shopifyProductId", t, "500") # {}
       /\ ByKey(orders, "shopifyOrderId", t, "900") # {}
  /\ \E p \in SyncProcs : Tenant(p) = "t1" /\ proc[p].pc = "order_upsert" /\ proc[p].found # NONE

\* C3: in every reachable state, every Order row with a non-null customerId
\* references a Customer row of the Order's own tenant.
C3_NoCrossTenantReference ==
  \A o \in orders :
    o.customerId # NULL =>
      \E c \in customers : c.id = o.customerId /\ c.tenantId = o.tenantId

\* Orders of both tenants reference a customer, each tenant having its own
\* customer "100".
C3_Witness ==
  \A t \in {"t1", "t2"} :
    /\ ByKey(customers, "shopifyCustomerId", t, "100") # {}
    /\ \E o \in RowsOf(orders, t) : o.customerId # NULL

\* Tenants that can be synced, and the records their shops hold.
Synced == {t \in tenants : t.accessToken # NULL}

\* No request or pass is in flight or waiting to be answered.
Quiet == \A p \in Procs : proc[p].pc = "idle"

\* C4: applying the same remote record through the same routine twice in a row
\* leaves the store as one application does: no further row, no field changed.
\* Stated of every store the mirror is left with between requests.
C4_Idempotent ==
  Quiet =>
  \A t \in Synced :
    /\ \A x \in RemoteData(t.shop).products :
         LET fs == FsApplyProduct(Store, t.id, x)
             wh == WhApplyProduct(Store, t.id, x)
         IN FsApplyProduct(fs, t.id, x) = fs /\ WhApplyProduct(wh, t.id, x) = wh
    /\ \A c \in RemoteData(t.shop).customers :
         LET fs == FsApplyCustomer(Store, t.id, c)
             wh == WhApplyCustomer(Store, t.id, c)
         IN FsApplyCustomer(fs, t.id, c) = fs /\ WhApplyCustomer(wh, t.id, c) = wh
    /\ \A o \in RemoteData(t.shop).orders :
         LET fs == FsApplyOrder(Store, t.id, o)
             wh == WhApplyOrder(Store, t.id, o)
         IN FsApplyOrder(fs, t.id, o) = fs /\ WhApplyOrder(wh, t.id, o) = wh

\* A stored customer, product and order whose first application is a change:
\* the sparse record over rows that hold values.
C4_Witness ==
  /\ Quiet
  /\ \E r \in RowsOf(customers, "t1") : r.email # NULL
  /\ FsApplyCustomer(Store, "t1", cBare) # Store
  /\ \E r \in RowsOf(products, "t1") : r.sku # NULL
  /\ WhApplyProduct(Store, "t1", pBare) # Store
  /\ \E r \in RowsOf(orders, "t1") : r.totalPrice # "0.00"
  /\ FsApplyOrder(Store, "t1", oBare) # Store

\* C5: for the same remote record and the same stored state, the full-sync
\* routine and the dispatcher's routine leave the same customer and product
\* rows, also when the record lacks email, names or title.
C5_PathsAgree ==
  Quiet =>
  \A t \in Synced :
    /\ \A c \in RemoteData(t.shop).customers :
         FsApplyCustomer(Store, t.id, c).customers = WhApplyCustomer(Store, t.id, c).customers
    /\ \A x \in RemoteData(t.shop).products :
         FsApplyProduct(Store, t.id, x).products = WhApplyProduct(Store, t.id, x).products

RECURSIVE ConcatPages(_, _, _)
ConcatPages(server, rootKey, n) ==
  IF n = 0 THEN <<>>
  ELSE ConcatPages(server, rootKey, n - 1)
         \o (IF rootKey \in DOMAIN server[n].body THEN server[n].body[rootKey] ELSE <<>>)

AllPagesOk(server) == \A k \in 1..Len(server) : server[k].status = 200

\* C6: when pages 1..N-1 carry a rel="next" link and page N does not, and every
\* page answers with success, the pull ends after exactly N requests (each turn
\* is one request and there are never more than N) and returns the items of
\* pages 1..N in order.
C6_PullReturnsAllPages ==
  AllPagesOk(pull.server) =>
    LET n == Len(pull.server)
    IN /\ pull.state # "thrown"
       /\ Len(pull.requests) <= n
       /\ pull.state = "returned" =>
            /\ Len(pull.requests) = n
            /\ pull.served = [k \in 1..n |-> k]
            /\ pull.returned = <<ConcatPages(pull.server, pull.coll.rootKey, n)>>

\* Three pages, the middle one with a previous and a next link, all returned.
C6_Witness ==
  /\ pull.state = "returned"
  /\ Len(pull.server) = 3
  /\ Len(pull.requests) = 3
  /\ Len(pull.returned[1]) >= 4
  /\ Len(pull.server[2].link) = 2

\* C7: when a page request gets a non-success status, the pull ends there with
\* an error that names the path and the status, hands no list to the caller
\* and requests no further page.
C7_Failed ==
  /\ \A i \in 1..Len(pull.served) :
       pull.server[pull.served[i]].status # 200 =>
         /\ i = Len(pull.served)
         /\ Len(pull.requests) = i
         /\ pull.state \in {"reading", "thrown"}
         /\ pull.state = "thrown" =>
              pull.error = <<"error", "Shopify", pull.coll.path,
                             StatusText(pull.server[pull.served[i]].status)>>
         /\ pull.returned = <<>>
  /\ pull.state = "thrown" =>
       /\ pull.served # <<>>
       /\ pull.server[pull.served[Len(pull.served)]].status # 200

\* The step after a failed response throws.
C7_Throws ==
  (pull.state = "reading" /\ Served(pull).status # 200) => pull'.state = "thrown"

C7_PullAbortsOnFailure == [](C7_Failed) /\ [][C7_Throws]_vars

\* The second page fails after the first page's items were collected.
C7_Witness ==
  /\ pull.state = "thrown"
  /\ Len(pull.served) = 2
  /\ pull.all # <<>>
  /\ Len(pull.server) = 3

AllPulls == <<"products", "customers", "orders">>

\* C8: within one fullSync pass, a failed pull of one collection aborts only
\* that collection: a pass that has started pulling ends having pulled
\* products, customers and orders.
C8_SiblingPullsProceed ==
  \A p \in SyncProcs :
    (proc[p].op = "fullSync" /\ proc[p].pc = "done" /\ proc[p].pulls # <<>>) =>
      proc[p].pulls = AllPulls

RecordPcs == {"products", "customers", "cust_find", "cust_write", "order_find",
              "order_upsert", "backfill"}

LoopOf(pc) ==
  CASE pc = "products" -> {"products"}
    [] pc \in {"customers", "cust_find", "cust_write"} -> {"customers", "cust_find", "cust_write"}
    [] pc \in {"order_find", "order_upsert"} -> {"order_find", "order_upsert"}
    [] OTHER -> {"backfill"}

PhaseAfter(pc) ==
  CASE pc = "products" -> "pull_customers"
    [] pc \in {"customers", "cust_find", "cust_write"} -> "pull_orders"
    [] pc \in {"order_find", "order_upsert"} -> "backfill_select"
    [] OTHER -> "done"

\* C9: within one fullSync pass, a failure while mapping or upserting one
\* record, or while backfilling one customer, does not abort the pass: the step
\* goes on with the same or the next record of the collection, or with the next
\* phase once the collection is through, and a pass that ends without a pull
\* error has pulled all three collections and returns its counts, unless the
\* store rejected the backfill selection itself (no record's failure).
C9_StepGoesOn ==
  \A p \in SyncProcs :
    (proc[p].op = "fullSync" /\ proc[p].pc \in RecordPcs /\ proc'[p] # proc[p]) =>
      /\ proc'[p].result \in {<<>>, <<"ok">>}
      /\ proc'[p].warned \in {proc[p].warned, proc[p].warned + 1}
      /\ \/ /\ proc'[p].pc \in LoopOf(proc[p].pc)
            /\ proc'[p].queue \in {proc[p].queue, Tail(proc[p].queue)}
            /\ proc'[p].queue # <<>>
         \/ /\ proc'[p].pc = PhaseAfter(proc[p].pc)
            /\ Len(proc[p].queue) = 1

C9_PassReturns ==
  \A p \in SyncProcs :
    (proc[p].op = "fullSync" /\ proc[p].pc = "done") =>
      \/ proc[p].result = <<"ok">> /\ proc[p].pulls = AllPulls
      \/ proc[p].result[1] = "error" /\ proc[p].result[2] = "Shopify"
      \/ proc[p].result[1] = "error" /\ proc[p].pulls = <<>> /\ proc[p].warned = 0
      \/ proc[p].result = StoreError /\ proc[p].pulls = AllPulls

C9_RecordFailureIsolated == [](C9_PassReturns) /\ [][C9_StepGoesOn]_vars

\* A pass over two products, two customers and two orders in which one record
\* of each collection failed: one product and one customer are counted, the
\* first order has just failed, and the pass is about to handle the order
\* listed after it.
C9_Witness ==
  \E p \in SyncProcs :
    /\ proc[p].op = "fullSync"
    /\ proc[p].tenantId = "t1"
    /\ proc[p].pc \in {"order_find", "order_upsert"}
    /\ proc[p].pulls = AllPulls
    /\ Len(proc[p].queue) = 1
    /\ proc[p].counts.products = 1
    /\ proc[p].counts.customers = 1
    /\ proc[p].counts.orders = 0
    /\ proc[p].warned = 3

NoTenantRow(tid) == \A t \in tenants : t.id # tid

NoCredentials(tid) == \E t \in tenants : t.id = tid /\ (t.accessToken = NULL \/ t.shop = NULL)

\* C10: fullSync for a tenant id without a Tenant row, or whose row lacks the
\* access token or the shop domain, fails with 'tenant not found' or 'tenant
\* missing accessToken or shop' before any remote request and before any
\* Customer, Product or Order row is written; when the store rejects the
\* lookup itself the pass fails as early, with the store's error.
C10_Failed ==
  \A p \in SyncProcs :
    (proc[p].op = "fullSync" /\ (NoTenantRow(Tenant(p)) \/ NoCredentials(Tenant(p)))) =>
      /\ proc[p].pc = "done"
      /\ proc[p].result \in
           {StoreError,
            IF NoTenantRow(Tenant(p)) THEN <<"error", "tenant not found">>
            ELSE <<"error", "tenant missing accessToken or shop">>}
      /\ proc[p].pulls = <<>>
      /\ proc[p].counts = NoCounts

C10_NothingWritten ==
  \A p \in SyncProcs :
    (/\ proc'[p] # proc[p]
     /\ proc'[p].op = "fullSync"
     /\ (NoTenantRow(proc'[p].tenantId) \/ NoCredentials(proc'[p].tenantId))) =>
      /\ customers' = customers
      /\ products' = products
      /\ orders' = orders

C10_FailsFast == [](C10_Failed) /\ [][C10_NothingWritten]_vars

\* A pass for the tenant without access token has failed, in a store that
\* already holds rows, after another shop was onboarded.
C10_Witness ==
  \E p \in SyncProcs :
    /\ proc[p].op = "fullSync"
    /\ Tenant(p) = "t3"
    /\ proc[p].pc = "done"
    /\ proc[p].result = <<"error", "tenant missing accessToken or shop">>
    /\ customers # {}
    /\ \E t \in tenants : t.shop = NewShop

\* C15: verifyHmac on raw bytes (a Buffer, or a string of the same text)
\* returns true exactly when the header is base64(HMAC-SHA256(secret, body)),
\* and false otherwise: for an empty header, a header of another length, a
\* header or body with one byte changed, and another secret.
C15_VerifyHmacExact ==
  (auth.state = "returned" /\ auth.rawBody.kind \in {"buffer", "string"}) =>
    auth.result = <<auth.hmacHeader = HmacSha256Base64(auth.secret, auth.rawBody.text)>>

\* A header of the digest's length that differs from it in one character was
\* refused.
C15_Witness ==
  /\ auth.state = "returned"
  /\ auth.rawBody = Buf(JsonStringify(pBare))
  /\ auth.secret = "whsec_1"
  /\ auth.hmacHeader = TamperedHeader
  /\ Len(TamperedHeader) = Len(HmacSha256Base64("whsec_1", JsonStringify(pBare)))
  /\ auth.result = <<FALSE>>

\* C16 (the authenticator): verifyHmac never returns true for a rawBody that
\* is not the raw bytes (a parsed object, or nothing).
C16_FailsClosed ==
  (auth.state = "returned" /\ auth.rawBody.kind \notin {"buffer", "string"}) =>
    auth.result = <<FALSE>>

\* The webhook request a process is handling, and whether it has its answer.
HookReq(p) == proc[p].hook[1]

HookDone(p) == proc[p].op = "webhook" /\ proc[p].pc = "done"

\* The header is the digest of the raw bytes under the secret the handler
\* resolves for the shop.
SignatureValid(req) ==
  /\ req.raw # <<>>
  /\ req.hmac = HmacSha256Base64(SecretOf(FindTenantByShop(req.shop)), req.raw[1])

Unauthentic(req) == req.shop = "" \/ req.raw = <<>> \/ ~SignatureValid(req)

\* C12: a webhook request without shop header, without raw bytes, or with a
\* missing or invalid signature is never dispatched and is answered with a
\* non-success status; without shop header the answer is the 400 of that
\* check whatever the store does (the check precedes every storage read).
C12_Rejected ==
  \A p \in HookProcs :
    (proc[p].op = "webhook" /\ Unauthentic(HookReq(p))) =>
      /\ proc[p].pc = "done"
      /\ WebhookStatus(proc[p].result) \in {"400", "401", "500"}
      /\ HookReq(p).shop = "" =>
           proc[p].result = <<"rejected", "400", "missing shop header">>

\* C12: the step that rejects such a request changes no Tenant, Customer,
\* Product or Order row.
C12_NoChange ==
  \A p \in HookProcs :
    (proc[p].pc = "idle" /\ HookDone(p)' /\ Unauthentic(HookReq(p))') =>
      UNCHANGED <<tenants, customers, products, orders>>

\* C12: rejection at the boundary, with no side effect.
C12_WebhookRejected == [](C12_Rejected) /\ [][C12_NoChange]_vars

\* Over a store that holds rows, a request of a known shop whose signature
\* differs from the digest in one character was answered 401.
C12_Witness ==
  \E p \in HookProcs :
    /\ HookDone(p)
    /\ HookReq(p).shop = "one.myshopify.com"
    /\ HookReq(p).payload = pBare
    /\ HookReq(p).raw # <<>>
    /\ HookReq(p).hmac = TamperedHeader
    /\ proc[p].result = <<"rejected", "401", "invalid hmac">>
    /\ products # {}
    /\ customers # {}

\* C13: a webhook request whose shop domain matches no Tenant row is never
\* dispatched and never answered with the success status.
C13_UnknownShopRejected ==
  \A p \in HookProcs :
    (proc[p].op = "webhook" /\ FindTenantByShop(HookReq(p).shop) = {}) =>
      /\ proc[p].pc = "done"
      /\ WebhookStatus(proc[p].result) # "200"

\* The request passed the handler's checks: its own tenant lookup answered and
\* the signature verified.
PassedVerification(p) ==
  /\ proc[p].op = "webhook"
  /\ ~Unauthentic(HookReq(p))
  /\ ~(proc[p].pc = "done" /\ proc[p].result[1] = "error" /\ proc[p].result[2] = "handler")

\* C14: a webhook request that passed signature verification is answered with
\* the success acknowledgement, whatever fails inside the dispatcher.
C14_DispatcherErrorsSwallowed ==
  \A p \in HookProcs :
    (PassedVerification(p) /\ proc[p].pc = "done") => WebhookStatus(proc[p].result) = "200"

\* C11: the counts of a fullSync pass are, for products, customers and orders,
\* the number of pulled records whose upsert the store accepted in this pass,
\* and 'backfilled' the number of rows the backfill updated; a record that
\* failed is logged and not counted.
C11_Counts ==
  \A p \in SyncProcs :
    proc[p].op = "fullSync" =>
      /\ proc[p].counts = proc[p].wrote
      /\ (proc[p].pc = "done" /\ proc[p].result = <<"ok">>) =>
           /\ proc[p].pulls = AllPulls
           /\ \A f \in {"products", "customers", "orders"} : proc[p].counts[f] <= MaxItems

\* C11 (against the store): a step of the pass that changes a table raises the
\* count of that table by one, and a step that logs a failed record changes
\* neither a count nor a table.
C11_Step ==
  \A p \in SyncProcs :
    (proc[p].op = "fullSync" /\ proc'[p].op = "fullSync" /\ proc'[p] # proc[p]) =>
      /\ products' # products => proc'[p].counts.products = proc[p].counts.products + 1
      /\ orders' # orders => proc'[p].counts.orders = proc[p].counts.orders + 1
      /\ customers' # customers =>
           \/ proc'[p].counts.customers = proc[p].counts.customers + 1
           \/ proc'[p].counts.backfilled = proc[p].counts.backfilled + 1
      /\ proc'[p].warned > proc[p].warned =>
           /\ proc'[p].counts = proc[p].counts
           /\ UNCHANGED <<customers, products, orders>>

\* C11: the counts a fullSync pass returns are the numbers of products,
\* customers and orders whose upsert succeeded in this pass and of customer
\* rows its backfill updated; failed records are not counted.
C11_CountsAreWrites == [](C11_Counts) /\ [][C11_Step]_vars

\* A completed pass that wrote its product, failed on its customer and wrote
\* its order.
C11_Witness ==
  \E p \in SyncProcs :
    /\ proc[p].op = "fullSync"
    /\ proc[p].pc = "done"
    /\ proc[p].result = <<"ok">>
    /\ proc[p].wrote.products = 1
    /\ proc[p].wrote.customers = 0
    /\ proc[p].wrote.orders = 1
    /\ proc[p].warned >= 1
    /\ proc[p].counts.backfilled = 0

\* The rows of a table under one natural key.
RowsAt(tbl, col, tenantId, sid) == {r \in tbl : r.tenantId = tenantId /\ r[col] = sid}

\* fullSync has upserted the order at the head of its queue, which names a
\* customer: the stored order references the tenant's row of that customer;
\* when there is no such row, an order that existed keeps its reference if
\* `keeps`, and the order has no reference otherwise.
C18_OrderStep(p, keeps) ==
  LET o == Head(proc[p].queue)
      t == proc[p].tenantId
      cust == RowsAt(customers, "shopifyCustomerId", t, String(o.customer[1].id))
      old == RowsAt(orders, "shopifyOrderId", t, String(o.id))
      new == RowsAt(orders', "shopifyOrderId", t, String(o.id))
  IN (/\ proc[p].op = "fullSync"
      /\ proc[p].pc = "order_upsert"
      /\ HasCustomerId(o)
      /\ proc'[p].wrote.orders = proc[p].wrote.orders + 1) =>
       /\ proc'[p].counts.orders = proc[p].counts.orders + 1
       /\ proc'[p].warned = proc[p].warned
       /\ proc'[p].result \in {<<>>, <<"ok">>}
       /\ new # {}
       /\ \A r \in new :
            r.customerId = IF cust # {} THEN (CHOOSE c \in cust : TRUE).id
                           ELSE IF keeps /\ old # {} THEN (CHOOSE x \in old : TRUE).customerId
                           ELSE NULL

\* C18, as the code has it: when fullSync reconciles an order that names remote
\* customer C and a Customer row (tenant, C) exists, the stored order references
\* that row; when none exists, a new order is stored without customer reference
\* and an existing order keeps the reference it had; no error is raised and
\* the order is counted.
C18_OrderCustomerResolved ==
  [][\A p \in SyncProcs : C18_OrderStep(p, TRUE)]_vars

\* C18, as stated: when no Customer row (tenant, C) exists the order is stored
\* with no customer reference.
C18_AsStated ==
  [][\A p \in SyncProcs : C18_OrderStep(p, FALSE)]_vars

\* A pass that wrote its customer and then its order, the order naming a
\* customer that has no row: the order is stored without reference and counted.
C18_Witness ==
  \E p \in SyncProcs :
    /\ proc[p].op = "fullSync"
    /\ proc[p].pc = "done"
    /\ proc[p].result = <<"ok">>
    /\ proc[p].wrote.customers = 1
    /\ proc[p].counts.orders = 1
    /\ RowsAt(customers, "shopifyCustomerId", proc[p].tenantId, "100") # {}
    /\ RowsAt(customers, "shopifyCustomerId", proc[p].tenantId, "101") = {}
    /\ \E r \in RowsAt(orders, "shopifyOrderId", proc[p].tenantId, "900") : r.customerId = NULL

\* C17 (order of the upserts): a dispatch of an orders/ topic whose payload
\* embeds a customer reaches the order upsert holding the local id of the
\* tenant's Customer row of the embedded remote id, which exists by then.
C17_CustomerFirst ==
  \A p \in HookProcs :
    (proc[p].op = "webhook" /\ proc[p].pc = "wh_order" /\ HasCustomerId(Payload(p))) =>
      \E c \in RowsAt(customers, "shopifyCustomerId", proc[p].tenantId,
                      String(Payload(p).customer[1].id)) : proc[p].found = c.id

\* C17 (the reference): the order upsert of such a dispatch, when it changes
\* the Order table, leaves the order referencing that Customer row, and the
\* dispatch returns.
C17_OrderStep ==
  \A p \in HookProcs :
    (/\ proc[p].op = "webhook"
     /\ proc[p].pc = "wh_order"
     /\ HasCustomerId(Payload(p))
     /\ proc'[p] # proc[p]
     /\ orders' # orders) =>
      /\ proc'[p].pc = "done"
      /\ proc'[p].result = <<"ok">>
      /\ \A r \in RowsAt(orders', "shopifyOrderId", proc[p].tenantId, String(Payload(p).id)) :
         \E c \in RowsAt(customers', "shopifyCustomerId", proc[p].tenantId,
                         String(Payload(p).customer[1].id)) : r.customerId = c.id

\* C17: for an orders/ webhook that embeds a customer, the customer is
\* upserted before the order, and the stored order references the Customer
\* row of (tenant, embedded remote customer id).
C17_CustomerBeforeOrder == [](C17_CustomerFirst) /\ [][C17_OrderStep]_vars

\* An orders/create dispatch has returned while a fullSync pass of the same
\* tenant is under way: the order references the customer row the dispatch
\* upserted.
C17_Witness ==
  \E p \in HookProcs, q \in SyncProcs :
    /\ HookDone(p)
    /\ proc[p].hook[1].topic = <<"orders", "create">>
    /\ proc[p].tenantId = "t1"
    /\ proc[q].op = "fullSync" /\ proc[q].tenantId = "t1" /\ proc[q].pc = "pull_orders"
    /\ proc[q].counts.customers = 0
    /\ \E r \in RowsAt(orders, "shopifyOrderId", "t1", "900") :
       \E c \in RowsAt(customers, "shopifyCustomerId", "t1", "100") : r.customerId = c.id

\* A topic that is neither prefixed "orders/" nor one of the four the
\* dispatcher names.
UnrecognizedTopic(topic) ==
  /\ ~(Len(topic) >= 2 /\ topic[1] = "orders")
  /\ topic \notin {<<"customers", "create">>, <<"customers", "update">>,
                   <<"products", "create">>, <<"products", "update">>}

\* The steps of each branch, and the tables a branch writes.
BranchPcs(topic) ==
  IF Len(topic) >= 2 /\ topic[1] = "orders" THEN {"wh_order_customer", "wh_order"}
  ELSE IF topic \in {<<"customers", "create">>, <<"customers", "update">>} THEN {"wh_customer"}
  ELSE IF topic \in {<<"products", "create">>, <<"products", "update">>} THEN {"wh_product"}
  ELSE {}

\* C19 (one branch): a dispatch is only ever inside the branch its topic
\* selects.
C19_OneBranch ==
  \A p \in HookProcs :
    (proc[p].op = "webhook" /\ proc[p].pc \notin {"idle", "wh_dispatch", "done"}) =>
      proc[p].pc \in BranchPcs(HookReq(p).topic)

\* C19 (unrecognized topic): the dispatch of an unrecognized topic, its tenant
\* lookup having answered, returns without error and changes no row.
C19_UnrecognizedStep ==
  \A p \in HookProcs :
    (/\ proc[p].op = "webhook"
     /\ proc[p].pc = "wh_dispatch"
     /\ UnrecognizedTopic(HookReq(p).topic)
     /\ proc'[p] # proc[p]
     /\ proc'[p].result # <<"error", "processWebhookPayload", "tenant lookup failed">>) =>
      /\ proc'[p].pc = "done"
      /\ proc'[p].result = <<"ok">>
      /\ UNCHANGED <<tenants, customers, products, orders>>

\* C19 (frame of the branches): a step inside the customers branch writes only
\* Customer rows, inside the products branch only Product rows, inside the
\* orders branch only Customer and Order rows.
C19_BranchFrame ==
  \A p \in HookProcs :
    (proc[p].op = "webhook" /\ proc'[p] # proc[p]) =>
      /\ proc[p].pc \notin {"wh_customer", "wh_order_customer"} => customers' = customers
      /\ proc[p].pc # "wh_product" => products' = products
      /\ proc[p].pc # "wh_order" => orders' = orders

\* C19: dispatching an authenticated webhook of an unrecognized topic raises no
\* error and leaves every Customer, Product and Order row unchanged; every
\* topic runs exactly one branch of the dispatcher.
C19_UnrecognizedTopicIgnored ==
  [](C19_OneBranch) /\ [][C19_UnrecognizedStep /\ C19_BranchFrame]_vars

\* Over a store that holds rows of the tenant, an authentic customers/delete
\* delivery was acknowledged.
C19_Witness ==
  \E p \in HookProcs :
    /\ HookDone(p)
    /\ HookReq(p).topic = <<"customers", "delete">>
    /\ HookReq(p).shop = "one.myshopify.com"
    /\ SignatureValid(HookReq(p))
    /\ proc[p].tenantId = "t1"
    /\ proc[p].result = <<"ok">>
    /\ RowsAt(customers, "shopifyCustomerId", "t1", "100") # {}
    /\ RowsAt(orders, "shopifyOrderId", "t1", "900") # {}

\* The remote records of the customer a selected row stands for.
BackfillAvailable(p) ==
  {c \in RemoteData(ClientOf(Tenant(p)).shop).customers :
     String(c.id) = Head(proc[p].queue).shopifyCustomerId}

\* C20: a backfill step over a selected row whose remote record is available
\* and carries a non-null email, first name or last name that differs from the
\* row either writes exactly the changed fields (and the updated timestamp) to
\* the row and counts it in 'backfilled', or logs the failure of that write.
C20_BackfillStep ==
  \A p \in SyncProcs :
    (/\ proc[p].op = "fullSync"
     /\ proc[p].pc = "backfill"
     /\ proc'[p] # proc[p]
     /\ BackfillAvailable(p) # {}
     /\ \A c \in BackfillAvailable(p) : DOMAIN BackfillChanges(Head(proc[p].queue), c) # {}) =>
      \/ \E c \in BackfillAvailable(p) :
           /\ customers' = {IF r.id = Head(proc[p].queue).id
                            THEN ApplyData(r, BackfillUpdateData(Head(proc[p].queue), c))
                            ELSE r : r \in customers}
           /\ proc'[p].counts.backfilled = proc[p].counts.backfilled + 1
      \/ /\ proc'[p].warned > proc[p].warned
         /\ customers' = customers

C20_BackfillUpdatesChanged == [][C20_BackfillStep]_vars

\* The elements of a sequence.
Range(q) == {q[i] : i \in 1..Len(q)}

\* The fields the backfill selects of a row.
Selected(r) ==
  [id |-> r.id, shopifyCustomerId |-> r.shopifyCustomerId, firstName |-> r.firstName,
   lastName |-> r.lastName, email |-> r.email]

\* The customers of a tenant whose email or first name is null.
Incomplete(tbl, tenantId) ==
  {r \in tbl : r.tenantId = tenantId /\ (r.email = NULL \/ r.firstName = NULL)}

Min(a, b) == IF a <= b THEN a ELSE b

\* C21 (one selection): the rows the backfill of a pass selects are customers
\* of the synced tenant whose email or first name is null, each once: all of
\* them when at most 1000 qualify, and 1000 of them otherwise; with none to
\* select the pass ends. A selection the store rejects selects nothing and ends
\* the pass with the store's error.
C21_SelectStep ==
  \A p \in SyncProcs :
    (/\ proc[p].op = "fullSync"
     /\ proc[p].pc = "backfill_select"
     /\ proc'[p] # proc[p]
     /\ proc'[p].result # StoreError) =>
      LET want == Incomplete(customers, proc[p].tenantId)
          got == Range(proc'[p].queue)
      IN IF want = {}
         THEN proc'[p].pc = "done" /\ proc'[p].result = <<"ok">>
         ELSE /\ proc'[p].pc = "backfill"
              /\ got \subseteq {Selected(r) : r \in want}
              /\ Cardinality(got) = Len(proc'[p].queue)
              /\ Len(proc'[p].queue) = Min(Cardinality(want), BackfillTake)

\* C21: the backfill step selects a customer of the synced tenant if and only
\* if its email is null or its first name is null, never a customer of another
\* tenant, and at most 1000 rows per pass (of more than 1000 such customers it
\* selects 1000).
C21_BackfillSelection == [][C21_SelectStep]_vars

\* The first tenant has 1001 customers with a null email or first name and
\* customers with both (one of them without last name); the second tenant has
\* customers with a null email or first name too.
\* The selection of a pass for the first tenant holds 1000 rows, among them one
\* with null email and a first name and one with an email and no first name.
C21_Witness ==
  \E p \in SyncProcs :
    /\ proc[p].op = "fullSync"
    /\ proc[p].pc = "backfill"
    /\ proc[p].tenantId = "t1"
    /\ Len(proc[p].queue) = BackfillTake
    /\ Cardinality(Incomplete(customers, "t1")) = BackfillTake + 1
    /\ Incomplete(customers, "t2") # {}
    /\ \E r \in customers :
         r.tenantId = "t1" /\ r.email # NULL /\ r.firstName # NULL /\ r.lastName = NULL
    /\ \E x \in Range(proc[p].queue) : x.email = NULL /\ x.firstName = "Ann"
    /\ \E x \in Range(proc[p].queue) : x.email = "a@x.io" /\ x.firstName = NULL

\* The remote record whose upsert is the step process p is about to take, per
\* table (none when its next step writes no row of that table from a record).
ActingCustomer(p) ==
  CASE proc[p].op \in {"fullSync"} /\ proc[p].pc \in {"customers", "cust_write"} ->
         <<Head(proc[p].queue)>>
    [] proc[p].op = "syncCustomers" /\ proc[p].pc = "sc_customers" -> <<Head(proc[p].queue)>>
    [] proc[p].op = "webhook" /\ proc[p].pc = "wh_customer" -> <<Payload(p)>>
    [] proc[p].op = "webhook" /\ proc[p].pc = "wh_order_customer" -> <<Payload(p).customer[1]>>
    [] OTHER -> <<>>

ActingProduct(p) ==
  CASE proc[p].op = "fullSync" /\ proc[p].pc = "products" -> <<Head(proc[p].queue)>>
    [] proc[p].op = "webhook" /\ proc[p].pc = "wh_product" -> <<Payload(p)>>
    [] OTHER -> <<>>

ActingOrder(p) ==
  CASE proc[p].op = "fullSync" /\ proc[p].pc = "order_upsert" -> <<Head(proc[p].queue)>>
    [] proc[p].op = "webhook" /\ proc[p].pc = "wh_order" -> <<Payload(p)>>
    [] OTHER -> <<>>

\* Column col of every row of the table is after the step what it was before.
Kept(before, after, col) ==
  \A r \in before : \A r2 \in after : r2.id = r.id => r2[col] = r[col]

\* C22 (one step): a step that upserts a record without created_at changes the
\* createdAt of no existing row of the record's table, and one without
\* updated_at the updatedAt of no existing customer.
C22_Step ==
  \A p \in Procs :
    proc'[p] # proc[p] =>
      /\ \A c \in Range(ActingCustomer(p)) :
           /\ ~Truthy(c.created_at) => Kept(customers, customers', "createdAt")
           /\ ~Truthy(c.updated_at) => Kept(customers, customers', "updatedAt")
      /\ \A x \in Range(ActingProduct(p)) :
           ~Truthy(x.created_at) => Kept(products, products', "createdAt")
      /\ \A o \in Range(ActingOrder(p)) :
           ~Truthy(o.created_at) => Kept(orders, orders', "createdAt")

\* C22: an upsert of an existing Customer, Product or Order row from a remote
\* record that carries no created/updated timestamp leaves the row's createdAt
\* and updatedAt as they were, on the full-sync path and on the webhook path.
C22_TimestampsKept == [][C22_Step]_vars

\* The first tenant's customer was rewritten by a pass from the record without
\* fields, its product by a webhook from the record without fields, its order
\* from the record without fields; each still carries its timestamps.
C22_Witness ==
  /\ \E r \in RowsAt(customers, "shopifyCustomerId", "t1", "100") :
       r.email = NULL /\ r.firstName = NULL /\ r.createdAt = NewDate(Iso1)
          /\ r.updatedAt = NewDate(Iso2)
  /\ \E r \in RowsAt(products, "shopifyProductId", "t1", "500") :
       r.title = "Shirt" /\ r.sku = NULL /\ r.createdAt = NewDate(Iso1)
  /\ \E r \in RowsAt(orders, "shopifyOrderId", "t1", "900") :
       r.totalPrice = "0.00" /\ r.createdAt = NewDate(Iso1)

\* Every row of the table is still there after the step, under the same local
\* id, tenant and remote id.
RowsStay(before, after, keyField) ==
  \A r \in before :
    \E r2 \in after : r2.id = r.id /\ r2.tenantId = r.tenantId /\ r2[keyField] = r[keyField]

\* C23: no step of fullSync, of its backfill or of a webhook dispatch (whatever
\* the topic, orders/delete and customers/delete included) deletes a Customer,
\* Product or Order row or changes a row's tenant id or remote id: the stored
\* natural keys only grow.
C23_NeverDeletes ==
  [][/\ RowsStay(customers, customers', "shopifyCustomerId")
     /\ RowsStay(products, products', "shopifyProductId")
     /\ RowsStay(orders, orders', "shopifyOrderId")]_vars

\* An orders/delete delivery for the first tenant was dispatched over a store
\* that holds the order, its customer and a product.
C23_Witness ==
  \E p \in HookProcs :
    /\ proc[p].op = "webhook"
    /\ proc[p].pc = "done"
    /\ proc[p].tenantId = "t1"
    /\ proc[p].hook[1].topic = <<"orders", "delete">>
    /\ RowsAt(orders, "shopifyOrderId", "t1", String(Payload(p).id)) # {}
    /\ RowsAt(customers, "shopifyCustomerId", "t1", "100") # {}
    /\ RowsAt(products, "shopifyProductId", "t1", "500") # {}

\* C24 (the tick so far): the tick goes through the tenants in the order of the
\* list, each tenant once; what is logged and what is still to do make up the
\* list; one pass is in flight exactly while the tick awaits it; a finished
\* tick has invoked fullSync for every tenant.
C24_TickOrder ==
  cron.state \in {"run", "await", "done"} =>
    /\ Len(cron.list) = Cardinality(tenants)
    /\ {cron.list[i] : i \in 1..Len(cron.list)} = {t.id : t \in tenants}
    /\ Len(cron.log) + Len(cron.todo) = Len(cron.list)
    /\ \A i \in 1..Len(cron.log) : cron.log[i][1] = cron.list[i]
    /\ \A i \in 1..Len(cron.todo) : cron.todo[i] = cron.list[Len(cron.log) + i]
    /\ (cron.state = "await") <=> (proc[CronProc].pc # "idle")
    /\ cron.state = "await" =>
         proc[CronProc].op = "fullSync" /\ proc[CronProc].tenantId = Head(cron.todo)
    /\ cron.state = "done" => cron.todo = <<>>

\* C24 (after a failure): when the awaited pass has failed and tenants remain,
\* the tick goes on with the next tenant.
C24_Return ==
  (/\ cron.state = "await"
   /\ cron' # cron
   /\ proc[CronProc].result[1] = "error"
   /\ Len(cron.todo) > 1) =>
     /\ cron'.state = "run"
     /\ cron'.todo = Tail(cron.todo)
     /\ cron'.log = Append(cron.log, <<Head(cron.todo), "failed">>)

\* C24 (the next tenant): the one step a tick can take between two passes is
\* the call of fullSync for the tenant at the head of what is to do.
C24_Invoke ==
  (cron.state = "run" /\ vars' # vars) =>
     /\ cron'.state = "await"
     /\ \E dbOk \in BOOLEAN : proc'[CronProc] = BeginFullSync(Head(cron.todo), dbOk)

\* C24: in one tick of the periodic trigger the tenants are synced one after
\* another, and a fullSync failure for one tenant (missing credentials,
\* transport error) does not keep fullSync from being invoked for every later
\* tenant of the tick.
C24_TickVisitsAll == [](C24_TickOrder) /\ [][C24_Return /\ C24_Invoke]_vars

\* A finished tick whose first tenant had no credentials, whose second failed
\* on a pull, and whose third was synced.
C24_Witness ==
  /\ cron.state = "done"
  /\ cron.log = <<<<"t3", "failed">>, <<"t1", "failed">>, <<"t2", "synced">>>>
  /\ RowsAt(customers, "shopifyCustomerId", "t2", "100") # {}
  /\ RowsAt(orders, "shopifyOrderId", "t1", "900") = {}

\* What one fullSync pass without failures leaves in an empty store for the
\* tenant of the race: its product, its customer, its order referencing the
\* customer.
EmptyStore == [customers |-> {}, products |-> {}, orders |-> {}]

SinglePass ==
  LET shop == ClientOf(RaceTenant).shop
      x == CHOOSE r \in RemoteData(shop).products : TRUE
      c == CHOOSE r \in RemoteData(shop).customers : TRUE
      o == CHOOSE r \in RemoteData(shop).orders : TRUE
  IN FsApplyOrder(FsApplyCustomer(FsApplyProduct(EmptyStore, RaceTenant, x), RaceTenant, c),
                  RaceTenant, o)

\* A pass that returned having counted a record of every collection.
CountedAll(p) ==
  /\ proc[p].op = "fullSync"
  /\ proc[p].pc = "done"
  /\ proc[p].result = <<"ok">>
  /\ \A f \in {"products", "customers", "orders"} : proc[p].counts[f] >= 1

\* C25 (rows): at every point of the interleaving the natural keys are unique;
\* whenever nothing is in flight every stored row is the row a single pass
\* writes (an order may lack its customer reference while no pass has written
\* it after the customer), and if one of the passes returned having counted
\* every collection, the store is the store of a single pass.
C25_Rows ==
  /\ UniqueIn(customers, "shopifyCustomerId")
  /\ UniqueIn(products, "shopifyProductId")
  /\ UniqueIn(orders, "shopifyOrderId")
  /\ (\A p \in Procs : ~Busy(p)) =>
       LET single == SinglePass
       IN /\ customers \subseteq single.customers
          /\ products \subseteq single.products
          /\ \A o \in orders :
               \E e \in single.orders : o = e \/ o = [e EXCEPT !.customerId = NULL]
          /\ (\E p \in Procs : CountedAll(p)) => Store = single

\* How far a pass or dispatch is from its return: the phases left, then the
\* records left in the phase, then the steps left on the record.
PhasesLeft(pc) ==
  CASE pc \in {"pull_products", "read_products"} -> 8
    [] pc = "products" -> 7
    [] pc \in {"pull_customers", "read_customers"} -> 6
    [] pc \in {"customers", "cust_find", "cust_write"} -> 5
    [] pc \in {"pull_orders", "read_orders"} -> 4
    [] pc \in {"order_find", "order_upsert"} -> 3
    [] pc = "backfill_select" -> 2
    [] pc \in {"backfill", "wh_order_customer"} -> 1
    [] OTHER -> 0

StepsLeft(pc) ==
  CASE pc \in {"customers", "wh_order_customer"} -> 3
    [] pc \in {"cust_find", "order_find"} -> 2
    [] pc \in {"cust_write", "order_upsert", "wh_order", "wh_customer", "wh_product"} -> 1
    [] OTHER -> 0

\* Inside a pull: the pages that can still come, then the body of the page.
PullLeft(l) ==
  CASE l.pc \in {"pull_products", "pull_customers", "pull_orders"} ->
         2 * (MaxItems - Len(l.all)) + 1
    [] l.pc \in {"read_products", "read_customers", "read_orders"} ->
         2 * (MaxItems - Len(l.all))
    [] OTHER -> 0

Rank(l) ==
  IF l.pc \in {"idle", "done"} THEN 0
  ELSE 1 + StepsLeft(l.pc) + PullLeft(l) + 4 * Len(l.queue)
         + 4 * (MaxItems + 1) * PhasesLeft(l.pc)

\* C25 (termination): no pass or dispatch in flight ever waits for the other,
\* and each of its steps brings it closer to its return.
C25_NotBlocked == \A p \in Procs : Busy(p) => ENABLED RaceStep(p)

C25_Progress ==
  \A p \in Procs : (Busy(p) /\ proc'[p] # proc[p]) => Rank(proc'[p]) < Rank(proc[p])

\* C25: two fullSync passes for the same tenant, or a pass and webhooks,
\* interleaved at their awaits over unchanged remote data both terminate, keep
\* the natural keys unique and leave the rows a single pass leaves; only the
\* counts they return may differ from a single pass.
C25_InterleavedPasses == [](C25_Rows /\ C25_NotBlocked) /\ [][C25_Progress]_vars

\* Both passes have returned; the second lost the creation of the customer to
\* the first and counted no customer; the store is the store of a single pass.
C25_Witness ==
  /\ CountedAll("p1")
  /\ proc["p1"].counts.customers = 1
  /\ proc["p2"].op = "fullSync"
  /\ proc["p2"].pc = "done"
  /\ proc["p2"].result = <<"ok">>
  /\ proc["p2"].counts.customers = 0
  /\ proc["p2"].counts.products = 1
  /\ proc["p2"].warned = 1
  /\ Store = SinglePass

\* A row before any write: every column empty.
Blank(columns) == [f \in columns |-> NULL]

\* A column written only when the record carries its value holds that value,
\* and otherwise what `before` held.
Mirrors(stored, carried, value, before) == stored = (IF carried THEN value ELSE before)

\* The row r mirrors the remote customer c / product x / order o: the fields
\* fullSync always writes equal the record's; each of the others equals the
\* record's when the record carries it and the field of `old` when not.
MirrorsCustomer(r, c, old) ==
  /\ r.email = Coalesce(c.email, NULL)
  /\ r.firstName = Coalesce(c.first_name, NULL)
  /\ r.lastName = Coalesce(c.last_name, NULL)
  /\ Mirrors(r.createdAt, Truthy(c.created_at), NewDate(c.created_at), old.createdAt)
  /\ Mirrors(r.updatedAt, Truthy(c.updated_at), NewDate(c.updated_at), old.updatedAt)

MirrorsProduct(r, x, old) ==
  /\ r.title = Coalesce(x.title, "Untitled")
  /\ r.sku = VariantSku(x)
  /\ r.price = ToDecimal(VariantPrice(x))
  /\ Mirrors(r.createdAt, Truthy(x.created_at), NewDate(x.created_at), old.createdAt)

MirrorsOrder(r, o, cs, old) ==
  LET named == IF HasCustomerId(o)
               THEN {c.id : c \in RowsAt(cs, "shopifyCustomerId", r.tenantId,
                                         String(o.customer[1].id))}
               ELSE {}
  IN /\ r.totalPrice = ToDecimal(Coalesce(o.total_price, "0.00"))
     /\ Mirrors(r.orderNumber, o.order_number # 0, String(o.order_number), old.orderNumber)
     /\ Mirrors(r.currency, o.currency # ABSENT, o.currency, old.currency)
     /\ Mirrors(r.createdAt, Truthy(o.created_at), NewDate(o.created_at), old.createdAt)
     /\ IF named # {} THEN r.customerId \in named ELSE r.customerId = old.customerId

\* The row under a key before a step, or an empty row when there is none.
RowBefore(tbl, columns, col, tenantId, sid) ==
  IF RowsAt(tbl, col, tenantId, sid) = {} THEN Blank(columns)
  ELSE CHOOSE r \in RowsAt(tbl, col, tenantId, sid) : TRUE

\* The rows of a table under the other keys.
RowsElse(tbl, col, tenantId, sid) == tbl \ RowsAt(tbl, col, tenantId, sid)

\* A step of a fullSync pass that counts the record at the head of its queue
\* leaves one row under the record's key; that row mirrors the record, a field
\* the record does not carry keeping what the row held before the step; the
\* rows under the other keys are as before. A step that counts nothing writes
\* nothing.
C26_Step ==
  \A p \in SyncProcs :
    (proc[p].op = "fullSync" /\ proc'[p].op = "fullSync") =>
      LET item == Head(proc[p].queue)
          tid == proc[p].tenantId
      IN /\ proc'[p].counts = proc[p].counts =>
              customers' = customers /\ products' = products /\ orders' = orders
         /\ proc'[p].counts.products = proc[p].counts.products + 1 =>
              /\ Cardinality(RowsAt(products', "shopifyProductId", tid, String(item.id))) = 1
              /\ \A r \in RowsAt(products', "shopifyProductId", tid, String(item.id)) :
                   MirrorsProduct(r, item, RowBefore(products, ProductColumns,
                                                     "shopifyProductId", tid, String(item.id)))
              /\ RowsElse(products', "shopifyProductId", tid, String(item.id))
                   = RowsElse(products, "shopifyProductId", tid, String(item.id))
         /\ proc'[p].counts.customers = proc[p].counts.customers + 1 =>
              /\ Cardinality(RowsAt(customers', "shopifyCustomerId", tid, String(item.id))) = 1
              /\ \A r \in RowsAt(customers', "shopifyCustomerId", tid, String(item.id)) :
                   MirrorsCustomer(r, item, RowBefore(customers, CustomerColumns,
                                                      "shopifyCustomerId", tid, String(item.id)))
              /\ RowsElse(customers', "shopifyCustomerId", tid, String(item.id))
                   = RowsElse(customers, "shopifyCustomerId", tid, String(item.id))
         /\ proc'[p].counts.orders = proc[p].counts.orders + 1 =>
              /\ Cardinality(RowsAt(orders', "shopifyOrderId", tid, String(item.id))) = 1
              /\ \A r \in RowsAt(orders', "shopifyOrderId", tid, String(item.id)) :
                   MirrorsOrder(r, item, customers',
                                RowBefore(orders, OrderColumns, "shopifyOrderId", tid,
                                          String(item.id)))
              /\ RowsElse(orders', "shopifyOrderId", tid, String(item.id))
                   = RowsElse(orders, "shopifyOrderId", tid, String(item.id))

\* A pass has returned without a failure while the remote data did not change.
PassedAtRest(p) ==
  /\ remote \in {"early", "still"}
  /\ proc[p].op = "fullSync"
  /\ proc[p].pc = "done"
  /\ proc[p].result = <<"ok">>
  /\ proc[p].warned = 0

\* After such a pass every record the remote lists has one row of the tenant,
\* and the row mirrors the record. With strict, a field the record does not
\* carry must be empty in the row; without, it is whatever the row holds.
C26_End(strict) ==
  \A p \in SyncProcs :
    PassedAtRest(p) =>
      LET tid == proc[p].tenantId
          shop == ClientOf(tid).shop
      IN /\ \A list \in RemoteLists(shop, "products") : \A x \in Range(list) :
              /\ Cardinality(RowsAt(products, "shopifyProductId", tid, String(x.id))) = 1
              /\ \A r \in RowsAt(products, "shopifyProductId", tid, String(x.id)) :
                   MirrorsProduct(r, x, IF strict THEN Blank(ProductColumns) ELSE r)
         /\ \A list \in RemoteLists(shop, "customers") : \A c \in Range(list) :
              /\ Cardinality(RowsAt(customers, "shopifyCustomerId", tid, String(c.id))) = 1
              /\ \A r \in RowsAt(customers, "shopifyCustomerId", tid, String(c.id)) :
                   MirrorsCustomer(r, c, IF strict THEN Blank(CustomerColumns) ELSE r)
         /\ \A list \in RemoteLists(shop, "orders") : \A o \in Range(list) :
              /\ Cardinality(RowsAt(orders, "shopifyOrderId", tid, String(o.id))) = 1
              /\ \A r \in RowsAt(orders, "shopifyOrderId", tid, String(o.id)) :
                   MirrorsOrder(r, o, customers, IF strict THEN Blank(OrderColumns) ELSE r)

C26_PassEnd == C26_End(FALSE)

\* C26: once the remote data is at rest and the webhooks are processed, a
\* fullSync pass that returns without a failure leaves, for every customer,
\* product and order the remote lists, one row of the tenant whose email and
\* names, title, sku and price, and total price equal the record's, and whose
\* timestamps, order number, currency and customer reference equal the
\* record's whenever the record carries them; a field of this second group
\* that the record does not carry keeps the value the row held before the
\* upsert of the record, which is the only write of the pass to that row.
C26_PassMirrorsRemote == [](C26_PassEnd) /\ [][C26_Step]_vars

\* C26 as stated: after the pass every mapped field of the row equals the
\* record's, so that no stale value written earlier by either path survives.
C26_AsStated == C26_End(TRUE)

\* The remote changed to its final data after a pass and webhooks had stored
\* the full versions; a later pass without failures has returned. The row of
\* the first customer has lost its email and kept its creation time; the first
\* product is "Untitled" and kept its creation time; the first order has the
\* default total and still the old number, currency and customer; the second
\* order references the row of the second customer.
C26_Witness ==
  \E p \in SyncProcs :
    /\ PassedAtRest(p)
    /\ remote = "still"
    /\ proc[p].tenantId = "t1"
    /\ \A f \in {"products", "customers", "orders"} : proc[p].counts[f] = 2
    /\ \E r \in RowsAt(customers, "shopifyCustomerId", "t1", "100") :
         r.email = NULL /\ r.createdAt = NewDate(Iso1)
    /\ \E r \in RowsAt(products, "shopifyProductId", "t1", "500") :
         r.title = "Untitled" /\ r.createdAt = NewDate(Iso1)
    /\ \E r \in RowsAt(orders, "shopifyOrderId", "t1", "900") :
         /\ r.totalPrice = "0.00"
         /\ r.orderNumber = "1001"
         /\ r.currency = "USD"
         /\ r.customerId \in {c.id : c \in RowsAt(customers, "shopifyCustomerId", "t1", "100")}
    /\ \E r \in RowsAt(orders, "shopifyOrderId", "t1", "901") :
         r.customerId \in {c.id : c \in RowsAt(customers, "shopifyCustomerId", "t1", "101")}

\* The collections a pass must have pulled, in order, to be at a step.
PullsAt(pc) ==
  CASE pc \in {"pull_products", "read_products"} -> <<>>
    [] pc \in {"products", "pull_customers", "read_customers"} -> <<"products">>
    [] pc \in {"customers", "cust_find", "cust_write", "pull_orders", "read_orders"} ->
         <<"products", "customers">>
    [] OTHER -> <<"products", "customers", "orders">>

\* C27 (order of the steps): a pass in flight has pulled exactly the
\* collections that precede its step, products first, then customers, then
\* orders, the backfill last.
C27_Order ==
  \A p \in SyncProcs :
    (proc[p].op = "fullSync" /\ Busy(p)) => proc[p].pulls = PullsAt(proc[p].pc)

\* C27 (the writes follow the order): a pass writes products only before it
\* pulls the customers, customers only before it pulls the orders.
C27_Writes ==
  \A p \in SyncProcs :
    (proc[p].op = "fullSync" /\ proc'[p].op = "fullSync") =>
      /\ proc'[p].counts.products # proc[p].counts.products => proc[p].pulls = <<"products">>
      /\ proc'[p].counts.customers # proc[p].counts.customers =>
           proc[p].pulls = <<"products", "customers">>
      /\ proc'[p].counts.orders # proc[p].counts.orders =>
           proc[p].pulls = <<"products", "customers", "orders">>

\* The remote customer ids of the collection a pass has upserted from (the
\* customers of a shop share one remote id).
UpsertedCustomerIds(p) ==
  IF proc[p].counts.customers >= 1
  THEN {String(c.id) : c \in RemoteData(ClientOf(Tenant(p)).shop).customers}
  ELSE {}

\* C27 (the reference): when a pass upserts an order naming a customer it has
\* upserted from the customer collection, the stored order references the
\* local row of that customer.
C27_Reference ==
  \A p \in SyncProcs :
    (/\ proc[p].op = "fullSync"
     /\ proc[p].pc = "order_upsert"
     /\ proc'[p].op = "fullSync"
     /\ proc'[p].counts.orders = proc[p].counts.orders + 1
     /\ HasCustomerId(Head(proc[p].queue))
     /\ String(Head(proc[p].queue).customer[1].id) \in UpsertedCustomerIds(p)) =>
      LET o == Head(proc[p].queue)
          cs == RowsAt(customers', "shopifyCustomerId", Tenant(p), String(o.customer[1].id))
      IN /\ cs # {}
         /\ \A r \in RowsAt(orders', "shopifyOrderId", Tenant(p), String(o.id)) :
              r.customerId \in {c.id : c \in cs}

\* C27: fullSync performs its steps in the fixed order products, customers,
\* orders, backfill, so that every pulled order whose remote customer id is in
\* the pulled customer collection ends the pass referencing that customer's
\* local row.
C27_FixedOrder == [](C27_Order) /\ [][C27_Writes /\ C27_Reference]_vars

\* A pass without failures has returned while no webhook was dispatched: its
\* order references the row of the customer the pass upserted before.
C27_Witness ==
  \E p \in SyncProcs :
    /\ proc[p].op = "fullSync"
    /\ proc[p].pc = "done"
    /\ proc[p].result = <<"ok">>
    /\ proc[p].warned = 0
    /\ proc[p].tenantId = "t1"
    /\ proc[p].pulls = <<"products", "customers", "orders">>
    /\ \A f \in {"products", "customers", "orders"} : proc[p].counts[f] = 1
    /\ \A q \in HookProcs : proc[q].op = "none"
    /\ \E r \in RowsAt(orders, "shopifyOrderId", "t1", "900") :
         \E c \in RowsAt(customers, "shopifyCustomerId", "t1", "100") : r.customerId = c.id

\* The page_info tokens a Link header gives under rel="next".
NextTokens(link) ==
  UNION {{e.params[j][2] : j \in {k \in 1..Len(e.params) : e.params[k][1] = "page_info"}} :
           e \in {link[i] : i \in {n \in 1..Len(link) : link[n].rel = "next"}}}

\* C28: every request of a collection pull carries limit=250; the first carries
\* no page_info and each later one exactly the token of the rel="next" link of
\* the response before it; every request of an order pull carries status=any,
\* and no other parameter is sent.
C28_RequestParameters ==
  pull.state # "off" =>
    \A i \in 1..Len(pull.requests) :
      LET q == pull.requests[i]
      IN /\ q["limit"] = "250"
         /\ IF i = 1 THEN "page_info" \notin DOMAIN q
            ELSE /\ "page_info" \in DOMAIN q
                 /\ NextTokens(pull.server[pull.served[i - 1]].link) = {q["page_info"]}
         /\ IF pull.coll.path = "orders"
            THEN "status" \in DOMAIN q /\ q["status"] = "any"
            ELSE "status" \notin DOMAIN q
         /\ DOMAIN q \subseteq {"limit", "page_info", "status"}

\* An order pull over three pages has returned, the Link headers naming the
\* previous page before the next one.
C28_Witness ==
  /\ pull.state = "returned"
  /\ pull.coll.path = "orders"
  /\ Len(pull.requests) = 3
  /\ pull.served = <<1, 2, 3>>
  /\ pull.server[2].link[1].rel = "previous"
  /\ pull.requests[3]["page_info"] = Cursor(3)

\* The record's customer cannot be resolved in the tenant: it embeds none, or
\* the tenant has no row for the remote id it names.
Unresolved(o, tenantId) ==
  \/ ~HasCustomerId(o)
  \/ RowsAt(customers, "shopifyCustomerId", tenantId, String(o.customer[1].id)) = {}

\* C29 (one step): every order row that references a customer is still there
\* after the step and still references one; and when the step is the order
\* upsert of a pass or of the webhook handler for a record whose customer
\* cannot be resolved, the rows of that order reference what they did before.
C29_Step ==
  /\ \A r \in orders :
       r.customerId # NULL => \E r2 \in orders' : r2.id = r.id /\ r2.customerId # NULL
  /\ \A p \in Procs :
       (/\ proc'[p] # proc[p]
        /\ ActingOrder(p) # <<>>
        /\ Unresolved(ActingOrder(p)[1], proc[p].tenantId)) =>
         \A r \in RowsAt(orders, "shopifyOrderId", proc[p].tenantId,
                         String(ActingOrder(p)[1].id)) :
           \E r2 \in orders' : r2.id = r.id /\ r2.customerId = r.customerId

\* C29: once an Order row references a customer, no later order upsert of
\* fullSync or of the orders/ webhook branch sets the reference back to null;
\* an upsert whose customer cannot be resolved (no embedded customer, or no
\* row of the tenant for the remote id) leaves the reference as it was.
C29_ReferenceNeverCleared == [][C29_Step]_vars

\* A pass has finished after writing the repriced order, whose customer the
\* tenant has no row for, over an order row that referenced a customer: the
\* row carries the new total and the reference it had.
C29_Witness ==
  \E p \in SyncProcs :
    /\ proc[p].op = "fullSync"
    /\ proc[p].pc = "done"
    /\ proc[p].wrote.orders = 1
    /\ RowsAt(customers, "shopifyCustomerId", proc[p].tenantId, "101") = {}
    /\ \E r \in RowsAt(orders, "shopifyOrderId", proc[p].tenantId, "900") :
         /\ r.totalPrice = "19.90"
         /\ r.customerId # NULL
         /\ \E c \in customers : c.id = r.customerId /\ c.shopifyCustomerId = "100"

\* The webhook handler wrote an order without customer over a row that
\* referenced one: the row carries the defaulted total and the reference.
C29_NoCustomerCase ==
  \E r \in orders : r.orderNumber = "1001" /\ r.totalPrice = "0.00" /\ r.customerId # NULL

====
